---- MODULE Spec2Model ----
(***************************************************************************)
(* The multi-tab WebSocket server of pi-remote-web-ui (server/index.ts):   *)
(* the tab registry (tabs, tabOrder), the client binding table             *)
(* (clientActiveTab), the scoped and global broadcasts, the message        *)
(* handler with its suspension points (every await is a step boundary),    *)
(* and the extension UI bridge (pendingExtensionRequests).                 *)
(***************************************************************************)
EXTENDS Integers, Sequences, FiniteSets, TLC

\* ---------------------------------------------------------------- bounds
\* identifiers crypto.randomUUID() hands to createTab (never reused)
MaxTabIds == 3
\* WebSocket connections accepted over the run
MaxConns == 2
\* saved session files known to SessionManager
MaxPaths == 1

TabIds == 1..MaxTabIds
Conns == 1..MaxConns
Paths == 1..MaxPaths

\* null / undefined of the source
Null == 0

VARIABLES
  tabs,             \* Map<string, TabEntry>: tabId -> [tabId, name, session]
  tabOrder,         \* string[]: tab ids in creation order
  clientActiveTab,  \* Map<WebSocket, string>
  tabCounter,       \* counter for default tab names
  session,          \* the AgentSession objects createTab has asked for, by tab id
  readyState,       \* ws.readyState of every connection object
  handlers,         \* async invocations suspended at an await (main included)
  files,            \* session files on disk (SessionManager.listAll)
  nextTabId,        \* next identifier randomUUID gives createTab
  mainPc,           \* main(): "boot", "listening" or "exit"
  dialogs,          \* the dialog requests createDialogPromise has registered, by id
  pendingExtensionRequests,  \* Map<string, PendingUIRequest>: its keys
  sent,             \* messages handed to ws.send in the last step, in order
  last,             \* the operation the last step ran
  state,            \* the browser client's `state` object (main.ts)
  activeBefore,     \* history: state.activeTabId before the client's last step,
                    \* and whether the step before that one was a tab click
  link              \* the browser client's WebSocket: whether connect() has made
                    \* it, and the frames in flight each way

vars == <<tabs, tabOrder, clientActiveTab, tabCounter, session, readyState,
          handlers, files, nextTabId, mainPc, dialogs, pendingExtensionRequests,
          sent, last, state, activeBefore, link>>

regVars == <<tabs, tabOrder, clientActiveTab, tabCounter, session, readyState,
             handlers, files, nextTabId, mainPc>>
dlgVars == <<dialogs, pendingExtensionRequests>>
cliVars == <<state, activeBefore>>

\* ------------------------------------------------------------- helpers
Max(a, b) == IF a >= b THEN a ELSE b

RECURSIVE SortedSeq(_)
SortedSeq(S) ==
  IF S = {} THEN <<>>
  ELSE LET m == CHOOSE x \in S : \A y \in S : x <= y
       IN <<m>> \o SortedSeq(S \ {m})

Range(s) == {s[i] : i \in 1..Len(s)}

\* Array.prototype.indexOf, 0-based, -1 when absent
IndexOf(s, x) ==
  IF x \in Range(s)
  THEN (CHOOSE i \in 1..Len(s) : s[i] = x /\ \A j \in 1..(i-1) : s[j] # x) - 1
  ELSE -1

\* tabOrder.splice(orderIdx, 1) for a 0-based index
Splice1(s, idx) == [i \in 1..(Len(s)-1) |-> IF i <= idx THEN s[i] ELSE s[i+1]]

\* wss.clients: the connections accepted and not yet closed, in accept order
wssClients == {c \in Conns : readyState[c] \in {"open", "closing"}}
ClientSeq == SortedSeq(wssClients)

\* `Session ${n}` and a session file's stored name
SessionName(n) == <<"Session", n>>
StoredName(p) == <<"stored", p>>

\* session.sessionId: a resumed session has its file's id, a fresh one its own
FreshSessionId(tabId) == 0 - tabId

Msg(to, kind, via, tabId, list, sid, id) ==
  [to |-> to, kind |-> kind, via |-> via, tabId |-> tabId, tabs |-> list,
   sessionId |-> sid, id |-> id, messages |-> 0, streaming |-> FALSE]

\* an extension_ui_response as the handler reads it: which of the keys
\* cancelled, value, confirmed it carries, and their values
NoReply == [cancelled |-> "absent", value |-> "absent", confirmed |-> "absent"]

OpV(op, ws, arg, ret, reply, out) ==
  [op |-> op, ws |-> ws, arg |-> arg, ret |-> ret, reply |-> reply, out |-> out]
Op(op, ws, arg, ret) == OpV(op, ws, arg, ret, NoReply, "")

\* state.dialog of the client when no dialog is on show (null)
NoRequest == [id |-> Null, method |-> ""]

\* the connection object the server has for the browser client's WebSocket
Browser == 1

\* ws.send(data) on the server's side of the browser's socket: the frames a
\* step hands to it are in flight towards the client, in order
toBrowser(msgs) == SelectSeq(msgs, LAMBDA m : m.to = Browser)

\* a step of the server: nothing of the browser's state changes; the frames
\* it sends to the browser's socket go in flight, and a switch_session it
\* has handled for the browser is no longer in flight
Wire ==
  /\ UNCHANGED cliVars
  /\ link' = IF link.on
             THEN [link EXCEPT
                     !.down = @ \o toBrowser(sent'),
                     !.up = IF last'.op = "switch_session" /\ last'.ws = Browser
                            THEN Tail(@) ELSE @]
             ELSE link

\* data.tabs of a tabs_update as the client keeps it, and a state_sync frame
TabIdsOf(list) == [i \in 1..Len(list) |-> list[i].tabId]
SyncFrame(m) == [tabId |-> m.tabId, messages |-> m.messages, streaming |-> m.streaming]

\* ws.onmessage: the frame handled is the oldest in flight to the client
Arrives(kind, payload) ==
  IF link.on
  THEN /\ link.down # <<>>
       /\ Head(link.down).kind = kind
       /\ payload = IF kind = "tabs_update" THEN TabIdsOf(Head(link.down).tabs)
                    ELSE SyncFrame(Head(link.down))
       /\ link' = [link EXCEPT !.down = Tail(@)]
  ELSE UNCHANGED link

Handler(kind, ws, pc, tabId, path, name, openIds) ==
  [kind |-> kind, ws |-> ws, pc |-> pc, tabId |-> tabId, path |-> path,
   name |-> name, openIds |-> openIds]

\* ------------------------------------------------------ registry, sends
\* (mutant: the list is taken without the tab added last)
getTabsListStale(tabsV, orderV) ==
  LET kept == SelectSeq(orderV, LAMBDA id : id \in DOMAIN tabsV)
  IN [i \in 1..(Len(kept) - 1) |->
        [tabId |-> tabsV[kept[i]].tabId, name |-> tabsV[kept[i]].name]]

getTabsList(tabsV, orderV) ==
  LET kept == SelectSeq(orderV, LAMBDA id : id \in DOMAIN tabsV)
  IN [i \in 1..Len(kept) |-> [tabId |-> tabsV[kept[i]].tabId, name |-> tabsV[kept[i]].name]]

\* (mutant: the readyState test is left out of the loop)
broadcastAllAnyState(kind, id, list) ==
  [i \in 1..Len(ClientSeq) |-> Msg(ClientSeq[i], kind, "all", Null, list, Null, id)]

broadcastAll(kind, id, list) ==
  LET to == SelectSeq(ClientSeq, LAMBDA c : readyState[c] = "open")
  IN [i \in 1..Len(to) |-> Msg(to[i], kind, "all", Null, list, Null, id)]

\* (mutant: the binding test is left out of the loop)
broadcastToTabViewersUnscoped(tabId, kind) ==
  LET to == SelectSeq(ClientSeq, LAMBDA c : readyState[c] = "open")
  IN [i \in 1..Len(to) |-> Msg(to[i], kind, "scoped", tabId, <<>>, Null, Null)]

\* (mutant: the loop misses the first viewer)
broadcastToTabViewersSkipsFirst(tabId, kind) ==
  LET to == SelectSeq(ClientSeq, LAMBDA c :
                readyState[c] = "open"
                /\ c \in DOMAIN clientActiveTab /\ clientActiveTab[c] = tabId)
  IN [i \in 1..(Len(to) - 1) |-> Msg(to[i + 1], kind, "scoped", tabId, <<>>, Null, Null)]

broadcastToTabViewers(tabId, kind) ==
  LET to == SelectSeq(ClientSeq, LAMBDA c :
                readyState[c] = "open"
                /\ c \in DOMAIN clientActiveTab /\ clientActiveTab[c] = tabId)
  IN [i \in 1..Len(to) |-> Msg(to[i], kind, "scoped", tabId, <<>>, Null, Null)]

\* (mutant: the list is the registry's before the handler changed it)
broadcastTabsListBefore(tabsV, orderV) ==
  broadcastAll("tabs_update", Null, getTabsList(tabs, tabOrder))

broadcastTabsList(tabsV, orderV) ==
  broadcastAll("tabs_update", Null, getTabsList(tabsV, orderV))

\* (mutant: the sync is built from the tab the connection is bound to, not
\* from the entry it is given)
sendStateSyncOfBinding(ws, entry) ==
  LET e == IF ws \in DOMAIN clientActiveTab /\ clientActiveTab[ws] \in DOMAIN tabs
           THEN tabs[clientActiveTab[ws]] ELSE entry
  IN <<[Msg(ws, "state_sync", "unicast", e.tabId, <<>>,
            session[e.session].sessionId, Null)
          EXCEPT !.messages = session[e.session].prompts,
                 !.streaming = session[e.session].streaming]>>

\* (mutant: the sync goes to every open connection)
sendStateSyncToAll(ws, entry) ==
  LET to == SelectSeq(ClientSeq, LAMBDA c : readyState[c] = "open")
  IN [i \in 1..Len(to) |->
        [Msg(to[i], "state_sync", "unicast", entry.tabId, <<>>,
             session[entry.session].sessionId, Null)
           EXCEPT !.messages = session[entry.session].prompts,
                  !.streaming = session[entry.session].streaming]]

sendStateSync(ws, entry) ==
  <<[Msg(ws, "state_sync", "unicast", entry.tabId, <<>>,
         session[entry.session].sessionId, Null)
       EXCEPT !.messages = session[entry.session].prompts,
              !.streaming = session[entry.session].streaming]>>

\* (mutant: `tabs.size < 1`)
isLastTabOffByOne(tabsV) == Cardinality(DOMAIN tabsV) < 1

\* `tabs.size <= 1`: the test that refuses to close the last remaining tab
isLastTab(tabsV) == Cardinality(DOMAIN tabsV) <= 1

\* (mutant: the tab after the closed one, `remainingOrder[idx]`)
closeTabReplacementNext(tabsV, orderV, tabId) ==
  LET idx == IndexOf(orderV, tabId)
      remainingOrder == SelectSeq(orderV, LAMBDA id : id # tabId /\ id \in DOMAIN tabsV)
      k == Max(0, idx) + 1
  IN IF k <= Len(remainingOrder) THEN remainingOrder[k]
     ELSE IF Len(remainingOrder) > 0 THEN remainingOrder[1]
     ELSE Null

\* closeTab(tabId): the value returned and the registry it leaves
closeTabReplacement(tabsV, orderV, tabId) ==
  LET idx == IndexOf(orderV, tabId)
      remainingOrder == SelectSeq(orderV, LAMBDA id : id # tabId /\ id \in DOMAIN tabsV)
      k == Max(0, idx - 1) + 1
  IN IF k <= Len(remainingOrder) THEN remainingOrder[k]
     ELSE IF Len(remainingOrder) > 0 THEN remainingOrder[1]
     ELSE Null

\* (mutant: tabOrder is not spliced)
closeTabKeepsOrder(tabsV, orderV, tabId) ==
  IF tabId \notin DOMAIN tabsV
  THEN [ret |-> Null, tabs |-> tabsV, order |-> orderV, disposed |-> Null]
  ELSE IF isLastTab(tabsV)
  THEN [ret |-> tabId, tabs |-> tabsV, order |-> orderV, disposed |-> Null]
  ELSE [ret |-> closeTabReplacement(tabsV, orderV, tabId),
        tabs |-> [t \in DOMAIN tabsV \ {tabId} |-> tabsV[t]],
        order |-> orderV,
        disposed |-> tabsV[tabId].session]

\* (mutant: the last tab is not refused)
closeTabNoRefusal(tabsV, orderV, tabId) ==
  IF tabId \notin DOMAIN tabsV
  THEN [ret |-> Null, tabs |-> tabsV, order |-> orderV, disposed |-> Null]
  ELSE LET orderIdx == IndexOf(orderV, tabId)
       IN [ret |-> closeTabReplacement(tabsV, orderV, tabId),
           tabs |-> [t \in DOMAIN tabsV \ {tabId} |-> tabsV[t]],
           order |-> IF orderIdx # -1 THEN Splice1(orderV, orderIdx) ELSE orderV,
           disposed |-> tabsV[tabId].session]

\* (mutant: the entry is dropped without session.dispose())
closeTabNoDispose(tabsV, orderV, tabId) ==
  IF tabId \notin DOMAIN tabsV
  THEN [ret |-> Null, tabs |-> tabsV, order |-> orderV, disposed |-> Null]
  ELSE IF isLastTab(tabsV)
  THEN [ret |-> tabId, tabs |-> tabsV, order |-> orderV, disposed |-> Null]
  ELSE LET orderIdx == IndexOf(orderV, tabId)
       IN [ret |-> closeTabReplacement(tabsV, orderV, tabId),
           tabs |-> [t \in DOMAIN tabsV \ {tabId} |-> tabsV[t]],
           order |-> IF orderIdx # -1 THEN Splice1(orderV, orderIdx) ELSE orderV,
           disposed |-> Null]

closeTab(tabsV, orderV, tabId) ==
  IF tabId \notin DOMAIN tabsV
  THEN [ret |-> Null, tabs |-> tabsV, order |-> orderV, disposed |-> Null]
  ELSE IF isLastTab(tabsV)
  THEN [ret |-> tabId, tabs |-> tabsV, order |-> orderV, disposed |-> Null]
  ELSE LET orderIdx == IndexOf(orderV, tabId)
       IN [ret |-> closeTabReplacement(tabsV, orderV, tabId),
           tabs |-> [t \in DOMAIN tabsV \ {tabId} |-> tabsV[t]],
           order |-> IF orderIdx # -1 THEN Splice1(orderV, orderIdx) ELSE orderV,
           disposed |-> tabsV[tabId].session]

\* entry.session.dispose()
Dispose(s) ==
  IF s = Null THEN session
  ELSE [session EXCEPT ![s].state = "disposed", ![s].disposeCalls = @ + 1]


\* ------------------------------------------------------------ initial state
Init ==
  /\ tabs = <<>>
  /\ tabOrder = <<>>
  /\ clientActiveTab = <<>>
  /\ tabCounter = 0
  /\ session = <<>>
  /\ readyState = [c \in Conns |-> "none"]
  /\ handlers = {}
  /\ files = Paths
  /\ nextTabId = 1
  /\ mainPc = "boot"
  /\ dialogs = <<>>
  /\ pendingExtensionRequests = {}
  /\ sent = <<>>
  /\ last = Op("init", Null, Null, Null)
  /\ state = [connected |-> FALSE, streaming |-> FALSE, items |-> 0,
              tabs |-> <<>>, activeTabId |-> Null, dialog |-> NoRequest]
  /\ activeBefore = [tab |-> Null, clicked |-> FALSE]
  /\ link = [on |-> FALSE, up |-> <<>>, down |-> <<>>]

\* ------------------------------------------------------------ createTab
\* createTab up to its first await: the identifier, the counter, the
\* SessionManager, and the call of createAgentSession.
CreateTabBegin(kind, ws, path) ==
  /\ nextTabId <= MaxTabIds
  /\ nextTabId' = nextTabId + 1
  /\ tabCounter' = tabCounter + 1
  /\ session' = session @@ (nextTabId :>
        [state |-> "constructing",
         sessionId |-> IF path # Null THEN path ELSE FreshSessionId(nextTabId),
         disposeCalls |-> 0, prompts |-> 0,
         streaming |-> FALSE, aborts |-> 0])
  /\ handlers' = handlers \cup
        {Handler(kind, ws, "cas", nextTabId, path, SessionName(0), {})}

\* the display name createTab derives once createAgentSession has resolved
displayName(h, stored) ==
  IF h.kind = "main" THEN SessionName(1)
  ELSE IF h.path # Null /\ stored THEN StoredName(h.path)
  ELSE SessionName(tabCounter)

\* await createAgentSession(...) resolves: name, session.subscribe, and the
\* call of session.bindExtensions
CreateAgentSessionResolves(h) ==
  /\ h \in handlers /\ h.pc = "cas" /\ mainPc # "exit"
  /\ \E stored \in BOOLEAN :
       /\ (h.path = Null => stored = FALSE)
       /\ handlers' = (handlers \ {h}) \cup
            {[h EXCEPT !.pc = "bind", !.name = displayName(h, stored)]}
  /\ session' = [session EXCEPT ![h.tabId].state = "live"]
  /\ sent' = <<>>
  /\ last' = Op("createAgentSession", h.ws, h.tabId, Null)
  /\ UNCHANGED <<tabs, tabOrder, clientActiveTab, tabCounter, readyState, files,
                 nextTabId, mainPc>>
  /\ UNCHANGED dlgVars
  /\ Wire

\* (mutant: no catch around the handler: every rejection ends the process)
CreateTabRejectsExits(h) ==
  /\ h \in handlers /\ h.pc \in {"cas", "bind"} /\ mainPc # "exit"
  /\ handlers' = handlers \ {h}
  /\ session' = IF h.pc = "cas"
                THEN [session EXCEPT ![h.tabId].state = "failed"]
                ELSE session
  /\ mainPc' = "exit"
  /\ sent' = <<>>
  /\ last' = Op("createTabRejects", h.ws, h.tabId, Null)
  /\ UNCHANGED <<tabs, tabOrder, clientActiveTab, tabCounter, readyState, files,
                 nextTabId>>
  /\ UNCHANGED dlgVars
  /\ Wire

\* a rejected await inside createTab: the handler's catch logs it; main exits
CreateTabRejects(h) ==
  /\ h \in handlers /\ h.pc \in {"cas", "bind"} /\ mainPc # "exit"
  /\ handlers' = handlers \ {h}
  /\ session' = IF h.pc = "cas"
                THEN [session EXCEPT ![h.tabId].state = "failed"]
                ELSE session
  /\ mainPc' = IF h.kind = "main" THEN "exit" ELSE mainPc
  /\ sent' = <<>>
  /\ last' = Op("createTabRejects", h.ws, h.tabId, Null)
  /\ UNCHANGED <<tabs, tabOrder, clientActiveTab, tabCounter, readyState, files,
                 nextTabId>>
  /\ UNCHANGED dlgVars
  /\ Wire

\* await session.bindExtensions(...) resolves: tabs.set, tabOrder.push and
\* return; the caller's continuation after `await createTab(...)` runs in the
\* same turn of the event loop (promise jobs run before the next message or
\* I/O callback): main goes on to listen, a command handler binds the
\* requester, broadcasts the tab list and sends the state_sync
BindExtensionsResolves(h) ==
  /\ h \in handlers /\ h.pc = "bind" /\ mainPc # "exit"
  /\ LET newEntry == [tabId |-> h.tabId, name |-> h.name, session |-> h.tabId]
     IN /\ tabs' = tabs @@ (h.tabId :> newEntry)
        /\ tabOrder' = Append(tabOrder, h.tabId)
        /\ handlers' = handlers \ {h}
        /\ IF h.kind = "main"
           THEN /\ mainPc' = "listening"
                /\ sent' = <<>>
                /\ UNCHANGED clientActiveTab
           ELSE /\ clientActiveTab' =
                      [c \in DOMAIN clientActiveTab \cup {h.ws} |->
                          IF c = h.ws THEN newEntry.tabId ELSE clientActiveTab[c]]
                /\ sent' = broadcastTabsList(tabs', tabOrder')
                             \o sendStateSync(h.ws, newEntry)
                /\ UNCHANGED mainPc
  /\ last' = Op(h.kind, h.ws, h.tabId, Null)
  /\ UNCHANGED <<tabCounter, session, readyState, files, nextTabId>>
  /\ UNCHANGED dlgVars
  /\ Wire

\* main(): const initialTab = await createTab(wss, ..., "Session 1")
MainCreateTab ==
  /\ mainPc = "boot" /\ handlers = {}
  /\ CreateTabBegin("main", Null, Null)
  /\ sent' = <<>>
  /\ last' = Op("main", Null, nextTabId, Null)
  /\ UNCHANGED <<tabs, tabOrder, clientActiveTab, readyState, files, mainPc>>
  /\ UNCHANGED dlgVars
  /\ Wire

\* ------------------------------------------------------------ connections
\* (mutant: the state_sync is sent before the tab list)
ConnectSyncFirst(ws) ==
  /\ mainPc = "listening" /\ readyState[ws] = "none"
  /\ \A c \in Conns : c < ws => readyState[c] # "none"
  /\ readyState' = [readyState EXCEPT ![ws] = "open"]
  /\ LET firstTabId == tabOrder[1]
         firstEntry == tabs[firstTabId]
     IN /\ clientActiveTab' = [c \in DOMAIN clientActiveTab \cup {ws} |->
                                 IF c = ws THEN firstTabId ELSE clientActiveTab[c]]
        /\ sent' = sendStateSync(ws, firstEntry)
                   \o <<Msg(ws, "tabs_update", "unicast", Null, getTabsList(tabs, tabOrder), Null, Null)>>
        /\ last' = Op("connection", ws, firstTabId, Null)
  /\ UNCHANGED <<tabs, tabOrder, tabCounter, session, handlers, files, nextTabId, mainPc>>
  /\ UNCHANGED dlgVars
  /\ Wire

\* (mutant: the connection is bound to the identifier handed out last,
\* registered or not)
ConnectBindsNewest(ws) ==
  /\ mainPc = "listening" /\ readyState[ws] = "none"
  /\ \A c \in Conns : c < ws => readyState[c] # "none"
  /\ readyState' = [readyState EXCEPT ![ws] = "open"]
  /\ LET firstTabId == tabOrder[1]
         firstEntry == tabs[firstTabId]
     IN /\ clientActiveTab' = [c \in DOMAIN clientActiveTab \cup {ws} |->
                                 IF c = ws THEN nextTabId - 1 ELSE clientActiveTab[c]]
        /\ sent' = <<Msg(ws, "tabs_update", "unicast", Null, getTabsList(tabs, tabOrder), Null, Null)>>
                   \o sendStateSync(ws, firstEntry)
        /\ last' = Op("connection", ws, firstTabId, Null)
  /\ UNCHANGED <<tabs, tabOrder, tabCounter, session, handlers, files, nextTabId, mainPc>>
  /\ UNCHANGED dlgVars
  /\ Wire

\* wss.on("connection"): bind to the first tab, send the tab list and a sync
Connect(ws) ==
  /\ mainPc = "listening" /\ readyState[ws] = "none"
  /\ \A c \in Conns : c < ws => readyState[c] # "none"
  /\ readyState' = [readyState EXCEPT ![ws] = "open"]
  /\ LET firstTabId == tabOrder[1]
         firstEntry == tabs[firstTabId]
     IN /\ clientActiveTab' = [c \in DOMAIN clientActiveTab \cup {ws} |->
                                 IF c = ws THEN firstTabId ELSE clientActiveTab[c]]
        /\ sent' = <<Msg(ws, "tabs_update", "unicast", Null, getTabsList(tabs, tabOrder), Null, Null)>>
                   \o sendStateSync(ws, firstEntry)
        /\ last' = Op("connection", ws, firstTabId, Null)
  /\ UNCHANGED <<tabs, tabOrder, tabCounter, session, handlers, files, nextTabId, mainPc>>
  /\ UNCHANGED dlgVars
  /\ Wire

\* the peer starts the closing handshake, or the socket ends: readyState CLOSING
BeginClose(ws) ==
  /\ readyState[ws] = "open" /\ mainPc # "exit"
  /\ readyState' = [readyState EXCEPT ![ws] = "closing"]
  /\ sent' = <<>>
  /\ last' = Op("closing", ws, Null, Null)
  /\ UNCHANGED <<tabs, tabOrder, clientActiveTab, tabCounter, session, handlers,
                 files, nextTabId, mainPc>>
  /\ UNCHANGED dlgVars
  /\ Wire

\* ws.on("close"): readyState CLOSED, out of wss.clients, clientActiveTab.delete(ws)
OnClose(ws) ==
  /\ readyState[ws] \in {"open", "closing"} /\ mainPc # "exit"
  /\ readyState' = [readyState EXCEPT ![ws] = "closed"]
  /\ clientActiveTab' = [c \in DOMAIN clientActiveTab \ {ws} |-> clientActiveTab[c]]
  /\ sent' = <<>>
  /\ last' = Op("close", ws, Null, Null)
  /\ UNCHANGED <<tabs, tabOrder, tabCounter, session, handlers, files, nextTabId, mainPc>>
  /\ UNCHANGED dlgVars
  /\ Wire

\* ------------------------------------------------------------ runtime events
\* session.subscribe((event) => broadcastToTabViewers(wss, tabId, event))
RuntimeEvent(tabId) ==
  /\ tabId \in DOMAIN session /\ session[tabId].state = "live" /\ mainPc # "exit"
  /\ sent' = broadcastToTabViewers(tabId, "event")
  /\ last' = Op("event", Null, tabId, Null)
  /\ UNCHANGED <<tabs, tabOrder, clientActiveTab, tabCounter, session, readyState,
                 handlers, files, nextTabId, mainPc>>
  /\ UNCHANGED dlgVars
  /\ Wire

\* (mutant: onError sends through broadcastAll)
ExtensionErrorToAll(tabId) ==
  /\ tabId \in DOMAIN session /\ session[tabId].state = "live" /\ mainPc # "exit"
  /\ sent' = [i \in 1..Len(broadcastAll("extension_error", Null, <<>>)) |->
               [broadcastAll("extension_error", Null, <<>>)[i] EXCEPT !.tabId = tabId]]
  /\ last' = Op("extension_error", Null, tabId, Null)
  /\ UNCHANGED <<tabs, tabOrder, clientActiveTab, tabCounter, session, readyState,
                 handlers, files, nextTabId, mainPc>>
  /\ UNCHANGED dlgVars
  /\ Wire

\* bindExtensions' onError: extension_error to the tab's viewers
ExtensionError(tabId) ==
  /\ tabId \in DOMAIN session /\ session[tabId].state = "live" /\ mainPc # "exit"
  /\ sent' = broadcastToTabViewers(tabId, "extension_error")
  /\ last' = Op("extension_error", Null, tabId, Null)
  /\ UNCHANGED <<tabs, tabOrder, clientActiveTab, tabCounter, session, readyState,
                 handlers, files, nextTabId, mainPc>>
  /\ UNCHANGED dlgVars
  /\ Wire

\* ------------------------------------------------------------ commands
\* ws.on("message") runs only for a connection that is open, once main listens
Receives(ws) == mainPc = "listening" /\ readyState[ws] = "open"

\* Array.from(tabs.values()).map((t) => t.session.sessionId)
openSessionIds(tabsV) == {session[tabsV[t].session].sessionId : t \in DOMAIN tabsV}

\* Array.from(tabs.values()).find((t) => t.session.sessionId === id): tabs is
\* iterated in insertion order, which is tabOrder's
findOpenTab(tabsV, orderV, id) ==
  LET hit == SelectSeq(orderV, LAMBDA t :
                 t \in DOMAIN tabsV /\ session[tabsV[t].session].sessionId = id)
  IN IF Len(hit) > 0 THEN hit[1] ELSE Null

\* (mutant: the loop stops after the first viewer)
viewersToRedirectFirst(targetTabId) ==
  LET all == SelectSeq(ClientSeq, LAMBDA c :
                 readyState[c] = "open"
                 /\ c \in DOMAIN clientActiveTab /\ clientActiveTab[c] = targetTabId)
  IN IF Len(all) > 0 THEN <<all[1]>> ELSE <<>>

\* (mutant: every open connection is redirected)
viewersToRedirectAll(targetTabId) ==
  SelectSeq(ClientSeq, LAMBDA c : readyState[c] = "open")

\* the connections the close flow redirects: open and viewing the closed tab
viewersToRedirect(targetTabId) ==
  SelectSeq(ClientSeq, LAMBDA c :
      readyState[c] = "open"
      /\ c \in DOMAIN clientActiveTab /\ clientActiveTab[c] = targetTabId)

\* (mutant: the tab is closed and the viewers are left where they were)
CloseFlowKeepsBindings(targetTabId, op, ws) ==
  LET r == closeTab(tabs, tabOrder, targetTabId)
  IN /\ tabs' = r.tabs
     /\ tabOrder' = r.order
     /\ session' = Dispose(r.disposed)
     /\ clientActiveTab' = clientActiveTab
     /\ sent' = broadcastTabsList(r.tabs, r.order)
     /\ last' = Op(op, ws, targetTabId, r.ret)

\* closeTab, broadcastTabsList, and the redirect loop over wss.clients
\* (the same code in the close_tab and the delete_session handlers)
CloseFlow(targetTabId, op, ws) ==
  LET r == closeTab(tabs, tabOrder, targetTabId)
      fallbackId == IF r.ret # Null THEN r.ret
                    ELSE IF Len(r.order) > 0 THEN r.order[1] ELSE Null
      found == fallbackId \in DOMAIN r.tabs
      moved == IF found THEN viewersToRedirect(targetTabId) ELSE <<>>
  IN /\ tabs' = r.tabs
     /\ tabOrder' = r.order
     /\ session' = Dispose(r.disposed)
     /\ clientActiveTab' = [c \in DOMAIN clientActiveTab |->
                              IF c \in Range(moved) THEN fallbackId ELSE clientActiveTab[c]]
     /\ sent' = broadcastTabsList(r.tabs, r.order)
                \o [i \in 1..Len(moved) |->
                      sendStateSync(moved[i], r.tabs[fallbackId])[1]]
     /\ last' = Op(op, ws, targetTabId, r.ret)

\* cmd.message of a prompt: missing or empty, or a text
Texts == {"", "text"}

\* (mutant: every command goes to the first tab)
activeTabIdFirst(ws) ==
  IF Len(tabOrder) > 0 THEN tabOrder[1] ELSE Null

\* const activeTabId = clientActiveTab.get(ws) ?? tabOrder[0]
activeTabId(ws) ==
  IF ws \in DOMAIN clientActiveTab THEN clientActiveTab[ws]
  ELSE IF Len(tabOrder) > 0 THEN tabOrder[1] ELSE Null

\* (mutant: the handler awaits the response of an idle session too)
PromptAwaitsResponse(ws, text) ==
  /\ Receives(ws)
  /\ LET id == activeTabId(ws)
         applies == text # "" /\ id \in DOMAIN tabs
         s == tabs[id].session
     IN /\ session' = IF applies
                      THEN [session EXCEPT ![s].prompts = @ + 1, ![s].streaming = TRUE]
                      ELSE session
        /\ handlers' = IF applies
                       THEN handlers \cup
                              {Handler("prompt", ws, "queued", id, Null, SessionName(0), {})}
                       ELSE handlers
        /\ last' = Op("prompt", ws, id, IF applies THEN 1 ELSE Null)
  /\ sent' = <<>>
  /\ UNCHANGED <<tabs, tabOrder, clientActiveTab, tabCounter, readyState,
                 files, nextTabId, mainPc>>
  /\ UNCHANGED dlgVars
  /\ Wire

\* case "prompt": the session of the tab the connection is bound to at
\* dispatch gets session.prompt(text).  An idle session starts its response
\* and the handler goes on without awaiting it; a streaming session queues
\* the text and the handler awaits the queueing.
Prompt(ws, text) ==
  /\ Receives(ws)
  /\ LET id == activeTabId(ws)
         applies == text # "" /\ id \in DOMAIN tabs
         s == tabs[id].session
     IN /\ session' = IF applies
                      THEN [session EXCEPT ![s].prompts = @ + 1, ![s].streaming = TRUE]
                      ELSE session
        /\ handlers' = IF applies /\ session[s].streaming
                       THEN handlers \cup
                              {Handler("prompt", ws, "queued", id, Null, SessionName(0), {})}
                       ELSE handlers
        /\ last' = Op("prompt", ws, id, IF applies THEN 1 ELSE Null)
  /\ sent' = <<>>
  /\ UNCHANGED <<tabs, tabOrder, clientActiveTab, tabCounter, readyState,
                 files, nextTabId, mainPc>>
  /\ UNCHANGED dlgVars
  /\ Wire

\* `await session.prompt(text, {streamingBehavior})` of a streaming session
\* resolves: the text is queued, the handler ends
PromptResolves(h) ==
  /\ h \in handlers /\ h.kind = "prompt" /\ h.pc = "queued"
  /\ handlers' = handlers \ {h}
  /\ sent' = <<>>
  /\ last' = Op("prompt_queued", h.ws, h.tabId, Null)
  /\ UNCHANGED <<tabs, tabOrder, clientActiveTab, tabCounter, session, readyState,
                 files, nextTabId, mainPc>>
  /\ UNCHANGED dlgVars
  /\ Wire

\* case "abort": session.abort() of the tab the connection is bound to at
\* dispatch; the handler awaits it
Abort(ws) ==
  /\ Receives(ws)
  /\ LET id == activeTabId(ws)
         applies == id \in DOMAIN tabs
         s == tabs[id].session
     IN /\ session' = IF applies THEN [session EXCEPT ![s].aborts = @ + 1] ELSE session
        /\ handlers' = IF applies
                       THEN handlers \cup
                              {Handler("abort", ws, "idle", id, Null, SessionName(0), {})}
                       ELSE handlers
        /\ last' = Op("abort", ws, id, IF applies THEN 1 ELSE Null)
  /\ sent' = <<>>
  /\ UNCHANGED <<tabs, tabOrder, clientActiveTab, tabCounter, readyState,
                 files, nextTabId, mainPc>>
  /\ UNCHANGED dlgVars
  /\ Wire

\* `await activeEntry.session.abort()` resolves once the session is idle
AbortResolves(h) ==
  /\ h \in handlers /\ h.kind = "abort" /\ h.pc = "idle"
  /\ ~session[h.tabId].streaming
  /\ handlers' = handlers \ {h}
  /\ sent' = <<>>
  /\ last' = Op("abort_done", h.ws, h.tabId, Null)
  /\ UNCHANGED <<tabs, tabOrder, clientActiveTab, tabCounter, session, readyState,
                 files, nextTabId, mainPc>>
  /\ UNCHANGED dlgVars
  /\ Wire

\* the response of a session ends: session.isStreaming is false again, and
\* the closing event goes to the viewers of the tab when the session is
\* still subscribed
ResponseEnds(tabId) ==
  /\ tabId \in DOMAIN session /\ session[tabId].streaming /\ mainPc # "exit"
  /\ session' = [session EXCEPT ![tabId].streaming = FALSE]
  /\ sent' = IF session[tabId].state = "live" THEN broadcastToTabViewers(tabId, "event")
             ELSE <<>>
  /\ last' = Op("agent_end", Null, tabId, Null)
  /\ UNCHANGED <<tabs, tabOrder, clientActiveTab, tabCounter, readyState,
                 handlers, files, nextTabId, mainPc>>
  /\ UNCHANGED dlgVars
  /\ Wire

\* an inbound frame that is no command: text that is not JSON; the JSON
\* values null, a number, a string, an array; an object without type; an
\* object with a type no case names
Payloads == {"not_json", "null", "number", "string", "array", "no_type", "unknown_type"}

\* ws.on("message") for such a frame.  JSON.parse throwing returns at once.
\* A number, string, array or object reaches `switch (cmd.type)` with a type
\* no case matches: default, break.  For null `cmd.type` throws a TypeError
\* inside the try; the catch evaluates `${cmd.type}` again, which throws out
\* of the async handler: an unhandled promise rejection.  What that does is
\* the runtime's choice: the process ends (the default since Node 15) or a
\* warning is printed (earlier versions, --unhandled-rejections=warn).
Malformed(ws, payload) ==
  /\ Receives(ws)
  /\ IF payload = "null"
     THEN \E ends \in BOOLEAN : mainPc' = IF ends THEN "exit" ELSE mainPc
     ELSE UNCHANGED mainPc
  /\ sent' = <<>>
  /\ last' = OpV("payload", ws, Null, Null, NoReply, payload)
  /\ UNCHANGED <<tabs, tabOrder, clientActiveTab, tabCounter, session, readyState,
                 handlers, files, nextTabId>>
  /\ UNCHANGED dlgVars
  /\ Wire

\* case "new_session": up to the first await inside createTab
NewSession(ws) ==
  /\ Receives(ws)
  /\ CreateTabBegin("new_session", ws, Null)
  /\ sent' = <<>>
  /\ last' = Op("new_session_begin", ws, nextTabId, Null)
  /\ UNCHANGED <<tabs, tabOrder, clientActiveTab, readyState, files, mainPc>>
  /\ UNCHANGED dlgVars
  /\ Wire

\* (mutant: the connection is rebound and no sync is sent)
SwitchSessionNoSync(ws, targetTabId) ==
  /\ Receives(ws)
  /\ IF targetTabId \in DOMAIN tabs
     THEN clientActiveTab' = [c \in DOMAIN clientActiveTab \cup {ws} |->
                                IF c = ws THEN targetTabId ELSE clientActiveTab[c]]
     ELSE UNCHANGED clientActiveTab
  /\ sent' = <<>>
  /\ last' = Op("switch_session", ws, targetTabId, Null)
  /\ UNCHANGED <<tabs, tabOrder, tabCounter, session, readyState, handlers, files,
                 nextTabId, mainPc>>
  /\ UNCHANGED dlgVars
  /\ Wire

\* (mutant: the target is bound without looking it up in tabs)
SwitchSessionUnchecked(ws, targetTabId) ==
  /\ Receives(ws)
  /\ clientActiveTab' = [c \in DOMAIN clientActiveTab \cup {ws} |->
                           IF c = ws THEN targetTabId ELSE clientActiveTab[c]]
  /\ sent' = IF targetTabId \in DOMAIN tabs
             THEN sendStateSync(ws, tabs[targetTabId]) ELSE <<>>
  /\ last' = Op("switch_session", ws, targetTabId, Null)
  /\ UNCHANGED <<tabs, tabOrder, tabCounter, session, readyState, handlers, files,
                 nextTabId, mainPc>>
  /\ UNCHANGED dlgVars
  /\ Wire

\* case "switch_session"
SwitchSession(ws, targetTabId) ==
  /\ Receives(ws)
  /\ IF targetTabId \in DOMAIN tabs
     THEN /\ clientActiveTab' = [c \in DOMAIN clientActiveTab \cup {ws} |->
                                   IF c = ws THEN targetTabId ELSE clientActiveTab[c]]
          /\ sent' = sendStateSync(ws, tabs[targetTabId])
     ELSE /\ UNCHANGED clientActiveTab
          /\ sent' = <<>>
  /\ last' = Op("switch_session", ws, targetTabId, Null)
  /\ UNCHANGED <<tabs, tabOrder, tabCounter, session, readyState, handlers, files,
                 nextTabId, mainPc>>
  /\ UNCHANGED dlgVars
  /\ Wire

\* (mutant: closing a tab empties the pending-request map)
CloseTabCancelsDialogs(ws, targetTabId) ==
  /\ Receives(ws)
  /\ IF targetTabId \in DOMAIN tabs /\ ~isLastTab(tabs)
     THEN /\ CloseFlow(targetTabId, "close_tab", ws)
          /\ pendingExtensionRequests' = {}
     ELSE /\ UNCHANGED <<tabs, tabOrder, session, clientActiveTab>>
          /\ sent' = <<>>
          /\ last' = Op("close_tab", ws, targetTabId, Null)
          /\ UNCHANGED pendingExtensionRequests
  /\ UNCHANGED <<tabCounter, readyState, handlers, files, nextTabId, mainPc>>
  /\ UNCHANGED dialogs
  /\ Wire

\* case "close_tab"
CloseTab(ws, targetTabId) ==
  /\ Receives(ws)
  /\ IF targetTabId \in DOMAIN tabs /\ ~isLastTab(tabs)
     THEN CloseFlow(targetTabId, "close_tab", ws)
     ELSE /\ UNCHANGED <<tabs, tabOrder, session, clientActiveTab>>
          /\ sent' = <<>>
          /\ last' = Op("close_tab", ws, targetTabId, Null)
  /\ UNCHANGED <<tabCounter, readyState, handlers, files, nextTabId, mainPc>>
  /\ UNCHANGED dlgVars
  /\ Wire

\* sessions_list: the saved sessions whose id is not in openIds
sessionsList(ws, all, openIds) ==
  <<Msg(ws, "sessions_list", "unicast", Null, SortedSeq(all \ openIds), Null, Null)>>

\* case "list_sessions": openIds is taken, then `await SessionManager.listAll()`
ListSessions(ws) ==
  /\ Receives(ws)
  /\ handlers' = handlers \cup
       {Handler("list_sessions", ws, "list", Null, Null, SessionName(0), openSessionIds(tabs))}
  /\ sent' = <<>>
  /\ last' = Op("list_sessions_begin", ws, Null, Null)
  /\ UNCHANGED <<tabs, tabOrder, clientActiveTab, tabCounter, session, readyState,
                 files, nextTabId, mainPc>>
  /\ UNCHANGED dlgVars
  /\ Wire

\* listAll resolves (ok) or rejects (allSessions stays []): the reply is sent
ListSessionsReply(h, ok) ==
  /\ h \in handlers /\ h.kind = "list_sessions" /\ h.pc = "list"
  /\ handlers' = handlers \ {h}
  /\ sent' = sessionsList(h.ws, IF ok THEN files ELSE {}, h.openIds)
  /\ last' = Op("list_sessions", h.ws, Null, Null)
  /\ UNCHANGED <<tabs, tabOrder, clientActiveTab, tabCounter, session, readyState,
                 files, nextTabId, mainPc>>
  /\ UNCHANGED dlgVars
  /\ Wire

\* case "open_session": `await SessionManager.listAll()`
OpenSession(ws, sessionPath) ==
  /\ Receives(ws)
  /\ handlers' = handlers \cup
       {Handler("open_session", ws, "list", Null, sessionPath, SessionName(0), {})}
  /\ sent' = <<>>
  /\ last' = Op("open_session_begin", ws, sessionPath, Null)
  /\ UNCHANGED <<tabs, tabOrder, clientActiveTab, tabCounter, session, readyState,
                 files, nextTabId, mainPc>>
  /\ UNCHANGED dlgVars
  /\ Wire

\* listAll resolves: unknown path, already open, or createTab begins;
\* listAll rejects (~ok): the handler's catch ends it
OpenSessionListed(h, ok) ==
  /\ h \in handlers /\ h.kind = "open_session" /\ h.pc = "list"
  /\ LET alreadyOpen == findOpenTab(tabs, tabOrder, h.path)
     IN IF ~ok \/ h.path \notin files
        THEN /\ handlers' = handlers \ {h}
             /\ sent' = <<>>
             /\ last' = Op("open_session_none", h.ws, h.path, Null)
             /\ UNCHANGED <<clientActiveTab, tabCounter, session, nextTabId>>
        ELSE IF alreadyOpen # Null
        THEN /\ handlers' = handlers \ {h}
             /\ clientActiveTab' = [c \in DOMAIN clientActiveTab \cup {h.ws} |->
                                      IF c = h.ws THEN alreadyOpen ELSE clientActiveTab[c]]
             /\ sent' = sendStateSync(h.ws, tabs[alreadyOpen])
             /\ last' = Op("open_session_switch", h.ws, alreadyOpen, Null)
             /\ UNCHANGED <<tabCounter, session, nextTabId>>
        ELSE /\ nextTabId <= MaxTabIds
             /\ nextTabId' = nextTabId + 1
             /\ tabCounter' = tabCounter + 1
             /\ session' = session @@ (nextTabId :>
                   [state |-> "constructing", sessionId |-> h.path,
                    disposeCalls |-> 0, prompts |-> 0,
                    streaming |-> FALSE, aborts |-> 0])
             /\ handlers' = (handlers \ {h}) \cup
                   {[h EXCEPT !.pc = "cas", !.tabId = nextTabId]}
             /\ sent' = <<>>
             /\ last' = Op("open_session_create", h.ws, nextTabId, Null)
             /\ UNCHANGED clientActiveTab
  /\ UNCHANGED <<tabs, tabOrder, readyState, files, mainPc>>
  /\ UNCHANGED dlgVars
  /\ Wire

\* case "delete_session": `await SessionManager.listAll()`
DeleteSession(ws, sessionPath) ==
  /\ Receives(ws)
  /\ handlers' = handlers \cup
       {Handler("delete_session", ws, "list", Null, sessionPath, SessionName(0), {})}
  /\ sent' = <<>>
  /\ last' = Op("delete_session_begin", ws, sessionPath, Null)
  /\ UNCHANGED <<tabs, tabOrder, clientActiveTab, tabCounter, session, readyState,
                 files, nextTabId, mainPc>>
  /\ UNCHANGED dlgVars
  /\ Wire

\* listAll resolves (or rejects: allForDelete stays []); the open tab of the
\* session, if any and not the last, is closed; `await fs.promises.unlink`
DeleteSessionListed(h, ok) ==
  /\ h \in handlers /\ h.kind = "delete_session" /\ h.pc = "list"
  /\ handlers' = (handlers \ {h}) \cup {[h EXCEPT !.pc = "unlink"]}
  /\ LET openTab == IF ok /\ h.path \in files
                    THEN findOpenTab(tabs, tabOrder, h.path) ELSE Null
     IN IF openTab # Null /\ ~isLastTab(tabs)
        THEN CloseFlow(openTab, "delete_session_close", h.ws)
        ELSE /\ UNCHANGED <<tabs, tabOrder, session, clientActiveTab>>
             /\ sent' = <<>>
             /\ last' = Op("delete_session_keep", h.ws, openTab, Null)
  /\ UNCHANGED <<tabCounter, readyState, files, nextTabId, mainPc>>
  /\ UNCHANGED dlgVars
  /\ Wire

\* unlink settles (the file is gone, or the error is logged); openIdsAfter
\* is taken; `await SessionManager.listAll()`
DeleteSessionUnlinked(h, ok) ==
  /\ h \in handlers /\ h.kind = "delete_session" /\ h.pc = "unlink"
  /\ files' = IF ok THEN files \ {h.path} ELSE files
  /\ handlers' = (handlers \ {h}) \cup
       {[h EXCEPT !.pc = "list2", !.openIds = openSessionIds(tabs)]}
  /\ sent' = <<>>
  /\ last' = Op("delete_session_unlink", h.ws, h.path, Null)
  /\ UNCHANGED <<tabs, tabOrder, clientActiveTab, tabCounter, session, readyState,
                 nextTabId, mainPc>>
  /\ UNCHANGED dlgVars
  /\ Wire

\* the second listAll settles: the updated sessions list goes to the requester
DeleteSessionReply(h, ok) ==
  /\ h \in handlers /\ h.kind = "delete_session" /\ h.pc = "list2"
  /\ handlers' = handlers \ {h}
  /\ sent' = sessionsList(h.ws, IF ok THEN files ELSE {}, h.openIds)
  /\ last' = Op("delete_session", h.ws, h.path, Null)
  /\ UNCHANGED <<tabs, tabOrder, clientActiveTab, tabCounter, session, readyState,
                 files, nextTabId, mainPc>>
  /\ UNCHANGED dlgVars
  /\ Wire

\* ------------------------------------------------------------ extension UI bridge
\* opts.timeout left out
Absent == 0 - 1
\* a timeout an extension asks for, in clock ticks
TimeoutMs == 1

Methods == {"select", "confirm", "input"}
\* opts.signal: not given, or given and not yet aborted
Signals == {"none", "live"}
Timeouts == {Absent, 0, TimeoutMs}
Replies ==
  {r \in [cancelled : {"absent", "true", "false"}, value : {"absent", "v"},
          confirmed : {"absent", "true", "false"}] :
     r.value = "absent" \/ r.confirmed = "absent"}

\* the defaultValue select, confirm and input pass to createDialogPromise
defaultValue(method) == IF method = "confirm" THEN "false" ELSE "undefined"

\* (mutant: the cancelled key is not looked at)
parseResponseIgnoresCancelled(method, r) ==
  IF method = "confirm"
  THEN IF r.confirmed # "absent" THEN r.confirmed ELSE "false"
  ELSE IF r.value # "absent" THEN r.value ELSE "undefined"

\* the parseResponse select, confirm and input pass to createDialogPromise
parseResponse(method, r) ==
  IF method = "confirm"
  THEN IF r.cancelled = "true" THEN "false"
       ELSE IF r.confirmed # "absent" THEN r.confirmed ELSE "false"
  ELSE IF r.cancelled = "true" THEN "undefined"
       ELSE IF r.value # "absent" THEN r.value ELSE "undefined"

\* if (opts?.timeout) timeoutId = setTimeout(..., opts.timeout)
startsTimer(timeout) == timeout # Absent /\ timeout # 0

\* (mutant: clearTimeout is left out)
cleanupKeepsTimer(d) == [d EXCEPT !.listener = FALSE]

\* cleanup(): clearTimeout, removeEventListener, pendingExtensionRequests.delete
cleanup(d) ==
  [d EXCEPT !.timer = IF @ = "armed" THEN "cleared" ELSE @, !.listener = FALSE]

\* resolve(value) of the dialog's promise: the first call settles it
resolve(d, value, by) ==
  IF d.by = "none"
  THEN [d EXCEPT !.by = by, !.outcome = value, !.at = d.elapsed, !.resolveCalls = @ + 1]
  ELSE [d EXCEPT !.resolveCalls = @ + 1]

\* an extension of a session that is running asks for a dialog
ExtensionRuns == mainPc # "exit" /\ \E t \in DOMAIN session : session[t].state = "live"

\* createDialogPromise with a signal that is not aborted (or none)
CreateDialogPromise(method, signal, timeout) ==
  /\ ExtensionRuns
  /\ LET id == Len(dialogs) + 1
     IN /\ dialogs' = Append(dialogs,
              [method |-> method, timeout |-> timeout, signal |-> signal,
               listener |-> (signal = "live"),
               timer |-> IF startsTimer(timeout) THEN "armed" ELSE "none",
               elapsed |-> 0, by |-> "none", outcome |-> "pending", at |-> 0,
               resolveCalls |-> 0])
        /\ pendingExtensionRequests' = pendingExtensionRequests \cup {id}
        /\ sent' = broadcastAll("extension_ui_request", id, <<>>)
        /\ last' = Op("dialog", Null, id, Null)
  /\ UNCHANGED regVars
  /\ Wire

\* (mutant: the aborted signal is not looked at before the broadcast)
CreateDialogPromiseAbortedBroadcasts(method) ==
  /\ ExtensionRuns
  /\ sent' = broadcastAll("extension_ui_request", Len(dialogs) + 1, <<>>)
  /\ last' = OpV("dialog_aborted", Null, Null, Null, NoReply, defaultValue(method))
  /\ UNCHANGED regVars
  /\ UNCHANGED dlgVars
  /\ Wire

\* createDialogPromise with opts.signal.aborted: Promise.resolve(defaultValue)
CreateDialogPromiseAborted(method) ==
  /\ ExtensionRuns
  /\ sent' = <<>>
  /\ last' = OpV("dialog_aborted", Null, Null, Null, NoReply, defaultValue(method))
  /\ UNCHANGED regVars
  /\ UNCHANGED dlgVars
  /\ Wire

\* notify, setStatus, setWidget: a request nobody answers
Notify ==
  /\ ExtensionRuns
  /\ sent' = broadcastAll("extension_ui_request", Null, <<>>)
  /\ last' = Op("notify", Null, Null, Null)
  /\ UNCHANGED regVars
  /\ UNCHANGED dlgVars
  /\ Wire

\* time passes for every timer that is armed and not yet due
Tick ==
  /\ mainPc # "exit"
  /\ \E id \in 1..Len(dialogs) :
       dialogs[id].timer = "armed" /\ dialogs[id].elapsed < dialogs[id].timeout
  /\ dialogs' = [id \in 1..Len(dialogs) |->
        IF dialogs[id].timer = "armed" /\ dialogs[id].elapsed < dialogs[id].timeout
        THEN [dialogs[id] EXCEPT !.elapsed = @ + 1] ELSE dialogs[id]]
  /\ sent' = <<>>
  /\ last' = Op("tick", Null, Null, Null)
  /\ UNCHANGED regVars
  /\ Wire
  /\ UNCHANGED pendingExtensionRequests

\* the setTimeout callback: cleanup(); resolve(defaultValue)
TimerFires(id) ==
  /\ mainPc # "exit" /\ id \in 1..Len(dialogs)
  /\ dialogs[id].timer = "armed" /\ dialogs[id].elapsed >= dialogs[id].timeout
  /\ LET d == dialogs[id]
     IN dialogs' = [dialogs EXCEPT ![id] =
          resolve(cleanup([d EXCEPT !.timer = "fired"]), defaultValue(d.method), "timeout")]
  /\ pendingExtensionRequests' = pendingExtensionRequests \ {id}
  /\ sent' = <<>>
  /\ last' = Op("timeout", Null, id, Null)
  /\ UNCHANGED regVars
  /\ Wire

\* opts.signal fires "abort"; onAbort, if still registered: cleanup(); resolve(defaultValue)
SignalAborts(id) ==
  /\ mainPc # "exit" /\ id \in 1..Len(dialogs)
  /\ dialogs[id].signal = "live"
  /\ LET d == [dialogs[id] EXCEPT !.signal = "aborted"]
     IN IF d.listener
        THEN /\ dialogs' = [dialogs EXCEPT ![id] =
                  resolve(cleanup(d), defaultValue(d.method), "abort")]
             /\ pendingExtensionRequests' = pendingExtensionRequests \ {id}
             /\ last' = Op("abort_signal", Null, id, 1)
        ELSE /\ dialogs' = [dialogs EXCEPT ![id] = d]
             /\ UNCHANGED pendingExtensionRequests
             /\ last' = Op("abort_signal", Null, id, Null)
  /\ sent' = <<>>
  /\ UNCHANGED regVars
  /\ Wire

\* (mutant: a reply whose id matches nothing resolves the oldest pending
\* request)
ExtensionUIResponseOldest(ws, id, r) ==
  /\ Receives(ws)
  /\ IF pendingExtensionRequests # {}
     THEN LET use == IF id \in pendingExtensionRequests THEN id
                     ELSE CHOOSE p \in pendingExtensionRequests :
                            \A q \in pendingExtensionRequests : p <= q
          IN /\ pendingExtensionRequests' = pendingExtensionRequests \ {use}
             /\ dialogs' = [dialogs EXCEPT ![use] =
                  resolve(cleanup(dialogs[use]), parseResponse(dialogs[use].method, r), "reply")]
             /\ last' = OpV("extension_ui_response", ws, id, 1, r, "")
     ELSE /\ UNCHANGED dlgVars
          /\ last' = Op("extension_ui_response", ws, id, Null)
  /\ sent' = <<>>
  /\ UNCHANGED regVars
  /\ Wire

\* case "extension_ui_response"
ExtensionUIResponse(ws, id, r) ==
  /\ Receives(ws)
  /\ IF id \in pendingExtensionRequests
     THEN /\ pendingExtensionRequests' = pendingExtensionRequests \ {id}
          /\ dialogs' = [dialogs EXCEPT ![id] =
               resolve(cleanup(dialogs[id]), parseResponse(dialogs[id].method, r), "reply")]
          /\ last' = OpV("extension_ui_response", ws, id, 1, r, "")
     ELSE /\ UNCHANGED dlgVars
          /\ last' = Op("extension_ui_response", ws, id, Null)
  /\ sent' = <<>>
  /\ UNCHANGED regVars
  /\ Wire

\* ------------------------------------------------------------ browser client
\* The client of one browser tab (main.ts).  state.items is kept as the
\* number of conversation items, a tab list as the sequence of its tabIds.
\* messages a state_sync carries
MaxItems == 2

\* a state_sync frame: tabId (or none), messages, streaming
SyncFrames == [tabId : {Null} \cup TabIds, messages : 0..MaxItems, streaming : BOOLEAN]

\* the tab lists a tabs_update carries: distinct identifiers, in order
TabLists ==
  {l \in UNION {[1..n -> TabIds] : n \in 0..MaxTabIds} :
     \A i, j \in 1..Len(l) : i # j => l[i] # l[j]}

History == [tab |-> state.activeTabId, clicked |-> last.op = "click" /\ last.ret = 1]

\* handleStateSync(data): a sync for a tab other than state.activeTabId is
\* ignored; otherwise the conversation is rebuilt from data.messages
handleStateSync(st, data) ==
  IF data.tabId # Null /\ data.tabId # st.activeTabId THEN st
  ELSE [st EXCEPT !.items = data.messages, !.streaming = data.streaming]

\* handleServerEvent, case "state_sync": state.activeTabId is set from the
\* frame, then handleStateSync runs
ClientStateSync(event) ==
  /\ state.connected
  /\ state' = handleStateSync(
                [state EXCEPT !.activeTabId = IF event.tabId # Null THEN event.tabId ELSE @],
                event)
  /\ activeBefore' = History
  /\ last' = Op("client_state_sync", Null, event.tabId, event.messages)
  /\ sent' = <<>>
  /\ UNCHANGED regVars
  /\ UNCHANGED dlgVars
  /\ Arrives("state_sync", event)

\* handleServerEvent, case "tabs_update"
ClientTabsUpdate(list) ==
  /\ state.connected
  /\ state' = [state EXCEPT !.tabs = list,
                            !.activeTabId = IF @ = Null /\ Len(list) > 0 THEN list[1] ELSE @]
  /\ activeBefore' = History
  /\ last' = Op("client_tabs_update", Null, Null, Null)
  /\ sent' = <<>>
  /\ UNCHANGED regVars
  /\ UNCHANGED dlgVars
  /\ Arrives("tabs_update", list)

\* handleServerEvent, cases "agent_start" and "agent_end"
ClientAgentEvent(kind) ==
  /\ state.connected
  /\ kind = "agent_start" => state.items < MaxItems
  /\ state' = IF kind = "agent_start"
              THEN [state EXCEPT !.streaming = TRUE, !.items = @ + 1]
              ELSE [state EXCEPT !.streaming = FALSE]
  /\ activeBefore' = History
  /\ last' = Op(kind, Null, Null, Null)
  /\ sent' = <<>>
  /\ UNCHANGED regVars
  /\ UNCHANGED dlgVars
  /\ UNCHANGED link

\* the click listener of a rendered tab: state.activeTabId is set at once
\* and switch_session is sent
TabClick(tabId) ==
  /\ \E i \in 1..Len(state.tabs) : state.tabs[i] = tabId
  /\ state' = IF tabId # state.activeTabId THEN [state EXCEPT !.activeTabId = tabId]
              ELSE state
  /\ activeBefore' = History
  /\ last' = Op("click", Null, tabId,
                IF tabId # state.activeTabId /\ state.connected THEN 1 ELSE Null)
  /\ sent' = <<>>
  /\ UNCHANGED regVars
  /\ UNCHANGED dlgVars
  /\ link' = IF link.on /\ tabId # state.activeTabId /\ state.connected
             THEN [link EXCEPT !.up = Append(@, tabId)]
             ELSE link

\* requests a client is sent in SpecClient
MaxRequests == 3
RequestIds == 1..MaxRequests
\* req.method of an extension_ui_request
RequestMethods == {"notify", "select", "confirm", "input", "editor"}

\* handleServerEvent, case "extension_ui_request": a notify is a toast; a
\* select, confirm, input or editor request becomes state.dialog and is rendered
ClientExtensionUIRequest(id, method) ==
  /\ state.connected
  /\ state' = IF method \in {"select", "confirm", "input", "editor"}
              THEN [state EXCEPT !.dialog = [id |-> id, method |-> method]]
              ELSE state
  /\ activeBefore' = History
  /\ last' = OpV("extension_ui_request", Null, id,
                 IF state.dialog # NoRequest THEN state.dialog.id ELSE Null, NoReply, method)
  /\ sent' = <<>>
  /\ UNCHANGED regVars
  /\ UNCHANGED dlgVars
  /\ UNCHANGED link

\* respond(value) of renderDialog, run by a button of the dialog on show:
\* send() hands the response to the socket only when it is open
DialogRespond ==
  /\ state.dialog # NoRequest
  /\ state' = [state EXCEPT !.dialog = NoRequest]
  /\ activeBefore' = History
  /\ last' = Op("respond", Null, state.dialog.id,
                IF state.connected THEN 1 ELSE Null)
  /\ sent' = <<>>
  /\ UNCHANGED regVars
  /\ UNCHANGED dlgVars
  /\ UNCHANGED link

\* the click listener of the overlay: a click on the backdrop cancels the
\* dialog on show
OverlayClick ==
  /\ state' = [state EXCEPT !.dialog = NoRequest]
  /\ activeBefore' = History
  /\ last' = Op("overlay_click", Null,
                IF state.dialog # NoRequest THEN state.dialog.id ELSE Null,
                IF state.dialog # NoRequest /\ state.connected THEN 1 ELSE Null)
  /\ sent' = <<>>
  /\ UNCHANGED regVars
  /\ UNCHANGED dlgVars
  /\ UNCHANGED link

\* connect(): ws = new WebSocket(...)
ClientConnect ==
  /\ ~link.on
  /\ link' = [link EXCEPT !.on = TRUE]
  /\ activeBefore' = History
  /\ last' = Op("connect", Null, Null, Null)
  /\ sent' = <<>>
  /\ UNCHANGED state
  /\ UNCHANGED regVars
  /\ UNCHANGED dlgVars

\* ws.onopen, ws.onclose
ClientOpen ==
  /\ ~state.connected
  /\ state' = [state EXCEPT !.connected = TRUE]
  /\ activeBefore' = History
  /\ last' = Op("onopen", Null, Null, Null)
  /\ sent' = <<>>
  /\ UNCHANGED regVars
  /\ UNCHANGED dlgVars
  /\ UNCHANGED link

ClientClose ==
  /\ state.connected
  /\ state' = [state EXCEPT !.connected = FALSE, !.streaming = FALSE]
  /\ activeBefore' = History
  /\ last' = Op("onclose", Null, Null, Null)
  /\ sent' = <<>>
  /\ UNCHANGED regVars
  /\ UNCHANGED dlgVars
  /\ UNCHANGED link

\* ------------------------------------------------------------ specifications
\* What is in flight at once is bounded where the commands are offered.
\* suspended handlers in Spec
MaxHandlers == 1
\* tab identifiers handed out in Spec
MaxOpened == 2
\* dialog requests in Spec and FairDialog
MaxAsked == 1
\* suspended handlers in SpecTabs
MaxConcurrent == 2
\* dialog requests in SpecDialog
MaxDialogs == 2

Room(n) == Cardinality(handlers) < n

\* createTab's awaits settle
SettleCreateTab ==
  \/ \E h \in handlers : CreateAgentSessionResolves(h)
  \/ \E h \in handlers : CreateTabRejects(h)
  \/ \E h \in handlers : BindExtensionsResolves(h)

\* the awaits of the saved-session commands settle
SettleSaved ==
  \/ \E h \in handlers, ok \in BOOLEAN : ListSessionsReply(h, ok)
  \/ \E h \in handlers, ok \in BOOLEAN : OpenSessionListed(h, ok)
  \/ \E h \in handlers, ok \in BOOLEAN : DeleteSessionListed(h, ok)
  \/ \E h \in handlers, ok \in BOOLEAN : DeleteSessionUnlinked(h, ok)
  \/ \E h \in handlers, ok \in BOOLEAN : DeleteSessionReply(h, ok)

Links ==
  \/ \E ws \in Conns : Connect(ws)
  \/ \E ws \in Conns : BeginClose(ws)
  \/ \E ws \in Conns : OnClose(ws)

Emits ==
  \/ \E t \in TabIds : RuntimeEvent(t)
  \/ \E t \in TabIds : ExtensionError(t)

\* Spec: the whole server, every command and every send, one handler
\* suspended at a time
Next ==
  \/ MainCreateTab
  \/ SettleCreateTab
  \/ SettleSaved
  \/ Links
  \/ Emits
  \/ \E ws \in Conns, t \in TabIds : SwitchSession(ws, t)
  \/ \E ws \in Conns, t \in TabIds : CloseTab(ws, t)
  \/ Room(MaxHandlers) /\ nextTabId <= MaxOpened /\ \E ws \in Conns : NewSession(ws)
  \/ Room(MaxHandlers) /\ \E ws \in Conns : ListSessions(ws)
  \/ Room(MaxHandlers) /\ nextTabId <= MaxOpened
       /\ \E ws \in Conns, p \in Paths : OpenSession(ws, p)
  \/ Room(MaxHandlers) /\ \E ws \in Conns, p \in Paths : DeleteSession(ws, p)
  \/ Len(dialogs) < MaxAsked /\ CreateDialogPromise("confirm", "none", Absent)
  \/ Notify
  \/ \E ws \in Conns, id \in 1..MaxAsked :
       ExtensionUIResponse(ws, id, [NoReply EXCEPT !.confirmed = "true"])

Spec == Init /\ [][Next]_vars

\* SpecTabs: the tab registry and the binding table under concurrent
\* createTab calls, with three tabs
NextTabs ==
  \/ MainCreateTab
  \/ SettleCreateTab
  \/ Links
  \/ Emits
  \/ \E ws \in Conns, t \in TabIds : SwitchSession(ws, t)
  \/ \E ws \in Conns, t \in TabIds : CloseTab(ws, t)
  \/ Room(MaxConcurrent) /\ \E ws \in Conns : NewSession(ws)

SpecTabs == Init /\ [][NextTabs]_vars

\* SpecDialog: the extension UI bridge with every option and reply
Boot ==
  \/ MainCreateTab
  \/ SettleCreateTab
  \/ \E ws \in Conns : Connect(ws)
  \/ \E ws \in Conns : OnClose(ws)

NextDialog ==
  \/ Boot
  \/ Len(dialogs) < MaxDialogs
       /\ \E m \in Methods, sg \in Signals, t \in Timeouts : CreateDialogPromise(m, sg, t)
  \/ \E m \in Methods : CreateDialogPromiseAborted(m)
  \/ Tick
  \/ \E id \in 1..MaxDialogs : TimerFires(id)
  \/ \E id \in 1..MaxDialogs : SignalAborts(id)
  \/ \E ws \in Conns, id \in 1..MaxDialogs, r \in Replies : ExtensionUIResponse(ws, id, r)

SpecDialog == Init /\ [][NextDialog]_vars

\* FairDialog: one dialog request; the event loop runs every timer that is
\* due, and time passes.  Replies and abort signals come from outside: no
\* fairness.
NextFair ==
  \/ Boot
  \/ Len(dialogs) < MaxAsked
       /\ \E m \in Methods, sg \in Signals, t \in Timeouts : CreateDialogPromise(m, sg, t)
  \/ Tick
  \/ \E id \in 1..MaxAsked : TimerFires(id)
  \/ \E id \in 1..MaxAsked : SignalAborts(id)
  \/ \E ws \in Conns, id \in 1..MaxAsked, r \in Replies : ExtensionUIResponse(ws, id, r)

FairDialog ==
  /\ Init /\ [][NextFair]_vars
  /\ WF_vars(Tick)
  /\ \A id \in 1..MaxAsked : WF_vars(TimerFires(id))

\* SpecOrder: commands of a connection while an earlier command of any
\* connection is suspended at an await
\* prompts a session is given in SpecOrder
MaxPrompts == 1

PromptRoom == \A t \in DOMAIN session : session[t].prompts < MaxPrompts

NextOrder ==
  \/ MainCreateTab
  \/ SettleCreateTab
  \/ SettleSaved
  \/ \E ws \in Conns : Connect(ws)
  \/ \E ws \in Conns : OnClose(ws)
  \/ \E ws \in Conns, t \in TabIds : SwitchSession(ws, t)
  \/ PromptRoom /\ \E ws \in Conns, text \in Texts : Prompt(ws, text)
  \/ Room(MaxHandlers) /\ nextTabId <= MaxOpened /\ \E ws \in Conns : NewSession(ws)
  \/ Room(MaxHandlers) /\ nextTabId <= MaxOpened
       /\ \E ws \in Conns, p \in Paths : OpenSession(ws, p)
  \/ Room(MaxHandlers) /\ \E ws \in Conns, p \in Paths : DeleteSession(ws, p)
  \/ Room(MaxHandlers) /\ \E ws \in Conns : ListSessions(ws)

SpecOrder == Init /\ [][NextOrder]_vars

\* SpecInput: frames that are no commands and replies to dialog requests,
\* with an id that is pending, one that is not, or none, among connections,
\* tab switches and a pending dialog request
NextInput ==
  \/ Boot
  \/ \E ws \in Conns : BeginClose(ws)
  \/ \E ws \in Conns, t \in TabIds : SwitchSession(ws, t)
  \/ Len(dialogs) < MaxAsked /\ CreateDialogPromise("confirm", "none", Absent)
  \/ \E ws \in Conns, payload \in Payloads : Malformed(ws, payload)
  \/ \E ws \in Conns, id \in 0..(MaxAsked + 1) :
       ExtensionUIResponse(ws, id, [NoReply EXCEPT !.confirmed = "true"])

SpecInput == Init /\ [][NextInput]_vars

\* FairPrompt: prompts and aborts among tab switches and new tabs.  Every
\* await of a handler settles; nothing says when, or whether, a response
\* ends.
\* prompts a session is given in FairPrompt, and abort calls
MaxQueued == 2
MaxAborts == 1

NextPrompt ==
  \/ Boot
  \/ \E ws \in Conns, t \in TabIds : SwitchSession(ws, t)
  \/ Room(MaxConcurrent) /\ nextTabId <= MaxOpened /\ \E ws \in Conns : NewSession(ws)
  \/ \E ws \in Conns, text \in Texts :
       /\ \A t \in DOMAIN session : session[t].prompts < MaxQueued
       /\ Prompt(ws, text)
  \/ \E ws \in Conns :
       /\ \A t \in DOMAIN session : session[t].aborts < MaxAborts
       /\ Abort(ws)
  \/ \E h \in handlers : PromptResolves(h)
  \/ \E h \in handlers : AbortResolves(h)
  \/ \E t \in TabIds : ResponseEnds(t)

FairPrompt ==
  /\ Init /\ [][NextPrompt]_vars
  /\ WF_vars(SettleCreateTab)
  /\ WF_vars(\E h \in handlers : PromptResolves(h))
  /\ WF_vars(\E h \in handlers : AbortResolves(h))

\* SpecSaved: list_sessions and open_session with two handlers suspended at
\* a time
NextSaved ==
  \/ Boot
  \/ Room(MaxConcurrent) /\ \E ws \in Conns : ListSessions(ws)
  \/ \E h \in handlers, ok \in BOOLEAN : ListSessionsReply(h, ok)
  \/ Room(MaxConcurrent) /\ nextTabId <= MaxOpened
       /\ \E ws \in Conns, p \in Paths : OpenSession(ws, p)
  \/ \E h \in handlers, ok \in BOOLEAN : OpenSessionListed(h, ok)

SpecSaved == Init /\ [][NextSaved]_vars

\* SpecClient: one browser client and the frames it is sent
NextClient ==
  \/ ClientOpen
  \/ ClientClose
  \/ \E list \in TabLists : ClientTabsUpdate(list)
  \/ \E event \in SyncFrames : ClientStateSync(event)
  \/ \E kind \in {"agent_start", "agent_end"} : ClientAgentEvent(kind)
  \/ \E t \in TabIds : TabClick(t)

SpecClient == Init /\ [][NextClient]_vars

\* SpecShown: one browser client, the dialog requests it is sent and what
\* the user does with the dialog on show
NextShown ==
  \/ ClientOpen
  \/ ClientClose
  \/ \E id \in RequestIds, method \in RequestMethods : ClientExtensionUIRequest(id, method)
  \/ DialogRespond
  \/ OverlayClick

SpecShown == Init /\ [][NextShown]_vars

\* SpecAgree: the server, the browser client over its socket, and a second
\* client that opens and closes tabs
\* frames in flight on the browser's socket when a tab is clicked
MaxInFlight == 2
Other == 2

NextAgree ==
  \/ MainCreateTab
  \/ SettleCreateTab
  \/ ClientConnect
  \/ link.on /\ Connect(Browser)
  \/ Connect(Other)
  \/ readyState[Browser] = "open" /\ ClientOpen
  \/ \E list \in TabLists : ClientTabsUpdate(list)
  \/ \E event \in SyncFrames : ClientStateSync(event)
  \/ Len(link.up) + Len(link.down) < MaxInFlight /\ \E t \in TabIds : TabClick(t)
  \/ link.up # <<>> /\ SwitchSession(Browser, Head(link.up))
  \/ \E t \in TabIds : CloseTab(Other, t)
  \/ Room(MaxHandlers) /\ nextTabId <= MaxOpened /\ NewSession(Other)

SpecAgree == Init /\ [][NextAgree]_vars

\* ------------------------------------------------------------ claims
Receivers == {sent[i].to : i \in 1..Len(sent)}
Bound(c, t) == c \in DOMAIN clientActiveTab /\ clientActiveTab[c] = t

\* C1 (Spec): scoping.  A runtime event or extension_error emitted for tab T2
\* is handed only to connections whose binding is T2 at that moment: never to
\* a connection bound to another tab T1, never to one without a binding; and
\* no other step sends an event.
C1_Scoping ==
  /\ last.op \in {"event", "extension_error"} =>
        \A c \in Receivers : Bound(c, last.arg)
  /\ \A i \in 1..Len(sent) :
        sent[i].kind \in {"event", "extension_error"} =>
           /\ last.op = sent[i].kind
           /\ sent[i].tabId = last.arg
           /\ Bound(sent[i].to, last.arg)

\* an event of one tab reaches its viewer while another open connection
\* watches a different tab
C1_Witness ==
  /\ last.op = "event" /\ Len(sent) = 1
  /\ \E c \in Conns :
       /\ readyState[c] = "open" /\ c \notin Receivers
       /\ c \in DOMAIN clientActiveTab /\ clientActiveTab[c] # last.arg

\* C2 (Spec): one delivery path per message kind.  Events and extension_error
\* go through the tab-scoped broadcast only; extension_ui_request through the
\* all-connections broadcast only; tabs_update through the all-connections
\* broadcast, or alone to the connection being accepted; state_sync and
\* sessions_list to a single connection only.
C2_OnePathPerKind ==
  \A i \in 1..Len(sent) :
    LET m == sent[i]
    IN /\ m.kind \in {"event", "extension_error", "extension_ui_request",
                      "tabs_update", "state_sync", "sessions_list"}
       /\ m.kind \in {"event", "extension_error"} => m.via = "scoped"
       /\ m.kind = "extension_ui_request" => m.via = "all"
       /\ m.kind = "tabs_update" =>
            \/ m.via = "all"
            \/ m.via = "unicast" /\ last.op = "connection" /\ m.to = last.ws
       /\ m.kind \in {"state_sync", "sessions_list"} => m.via = "unicast"
       /\ m.kind = "sessions_list" => m.to = last.ws
       /\ m.via \in {"scoped", "all"} => readyState[m.to] = "open"

\* new_session with two connections open: the tab list goes to both through
\* the all-connections path, the state_sync to the requester alone
C2_Witness ==
  /\ last.op = "new_session"
  /\ Cardinality({i \in 1..Len(sent) : sent[i].kind = "tabs_update" /\ sent[i].via = "all"}) = 2
  /\ Cardinality({i \in 1..Len(sent) : sent[i].kind = "state_sync"}) = 1

\* C3 (SpecTabs): the keys of the tab mapping are the elements of the tab
\* order, and the order holds no identifier twice.
C3_RegistryConsistent ==
  /\ DOMAIN tabs = Range(tabOrder)
  /\ Cardinality(Range(tabOrder)) = Len(tabOrder)
  /\ \A t \in DOMAIN tabs : tabs[t].tabId = t

\* two createTab calls are in flight: the later one has registered its tab
\* while the earlier one is still suspended
C3_Witness ==
  /\ \E h \in handlers, t \in DOMAIN tabs :
       /\ h.pc \in {"cas", "bind"} /\ t > h.tabId
  /\ Len(tabOrder) = 2

\* C4 (Spec): once the initial tab has been created the registry is never
\* empty.
InitialTabCreated == mainPc = "listening"

C4_NeverEmpty ==
  InitialTabCreated => (DOMAIN tabs # {} /\ Len(tabOrder) >= 1)

\* delete_session found its session open in the only tab and kept the tab
C4_Witness ==
  /\ last.op = "delete_session_keep" /\ last.arg # Null
  /\ Cardinality(DOMAIN tabs) = 1

\* C5 (SpecTabs): last-tab protection.  With exactly one tab in the registry
\* closeTab on it returns its own identifier and leaves mapping and order as
\* they are and disposes nothing; a close_tab command in that state changes
\* neither registry, sessions nor bindings and sends nothing.
C5_LastTabProtected ==
  /\ [](Cardinality(DOMAIN tabs) = 1 =>
          \A t \in DOMAIN tabs :
             closeTab(tabs, tabOrder, t) =
               [ret |-> t, tabs |-> tabs, order |-> tabOrder, disposed |-> Null])
  /\ [][\A ws \in Conns, t \in TabIds :
          (Cardinality(DOMAIN tabs) = 1 /\ t \in DOMAIN tabs /\ CloseTab(ws, t)) =>
             /\ UNCHANGED <<tabs, tabOrder, session, clientActiveTab>>
             /\ sent' = <<>>]_vars

\* close_tab has run on the only tab, which is still there
C5_Witness ==
  /\ last.op = "close_tab" /\ last.arg \in DOMAIN tabs
  /\ Cardinality(DOMAIN tabs) = 1 /\ tabOrder = <<last.arg>>
  /\ Bound(last.ws, last.arg)

\* C6 (SpecTabs): replacement on close.  With at least two tabs, closeTab of
\* the tab at position p of the order returns the tab at position p-1 when
\* there is one, and otherwise the first tab of the remaining order; the tab
\* returned is in the registry after the close.
C6_Replacement ==
  /\ Len(tabOrder) >= 2 =>
       \A p \in 1..Len(tabOrder) :
          LET r == closeTab(tabs, tabOrder, tabOrder[p])
          IN /\ r.ret = IF p > 1 THEN tabOrder[p-1] ELSE tabOrder[2]
             /\ r.ret \in DOMAIN r.tabs
             /\ tabOrder[p] \notin DOMAIN r.tabs
  /\ (last.op = "close_tab" /\ last.ret # Null) =>
       /\ last.ret \in DOMAIN tabs
       /\ last.arg \notin DOMAIN tabs

\* B was closed in [A, B, C]: the replacement is A
C6_Witness ==
  /\ last.op = "close_tab" /\ last.arg = 2 /\ last.ret = 1
  /\ tabOrder = <<1, 3>>

\* C7 as stated (SpecTabs): when close_tab removes tab X, the tab list
\* without X goes to all connections, every connection whose binding was X is
\* rebound to the replacement and sent a state_sync for it, and after the
\* step no connection is bound to X.
C7_AsStated ==
  [][\A ws \in Conns, X \in TabIds :
       (CloseTab(ws, X) /\ X \in DOMAIN tabs /\ X \notin DOMAIN tabs') =>
          LET repl == closeTab(tabs, tabOrder, X).ret
          IN /\ \A c \in Conns : readyState[c] = "open" =>
                  \E i \in 1..Len(sent') :
                     /\ sent'[i].to = c /\ sent'[i].kind = "tabs_update"
                     /\ sent'[i].tabs = getTabsList(tabs', tabOrder')
                     /\ \A j \in 1..Len(sent'[i].tabs) : sent'[i].tabs[j].tabId # X
             /\ \A c \in DOMAIN clientActiveTab :
                  clientActiveTab[c] = X =>
                    /\ c \in DOMAIN clientActiveTab' /\ clientActiveTab'[c] = repl
                    /\ \E i \in 1..Len(sent') :
                         /\ sent'[i].to = c /\ sent'[i].kind = "state_sync"
                         /\ sent'[i].tabId = repl
             /\ \A c \in DOMAIN clientActiveTab' : clientActiveTab'[c] # X]_vars

\* C7 amended (SpecTabs): the same for the connections that are open: every
\* open connection is sent the tab list without X, every open connection
\* bound to X is rebound to the replacement and sent a state_sync for it, and
\* after the step no open connection is bound to X.  A connection that is
\* closing keeps its binding.
C7_CloseTabFlow ==
  [][\A ws \in Conns, X \in TabIds :
       (CloseTab(ws, X) /\ X \in DOMAIN tabs /\ X \notin DOMAIN tabs') =>
          LET repl == closeTab(tabs, tabOrder, X).ret
          IN /\ repl \in DOMAIN tabs'
             /\ \A c \in Conns : readyState[c] = "open" =>
                  \E i \in 1..Len(sent') :
                     /\ sent'[i].to = c /\ sent'[i].kind = "tabs_update"
                     /\ sent'[i].tabs = getTabsList(tabs', tabOrder')
                     /\ \A j \in 1..Len(sent'[i].tabs) : sent'[i].tabs[j].tabId # X
             /\ \A c \in DOMAIN clientActiveTab :
                  (clientActiveTab[c] = X /\ readyState[c] = "open") =>
                    /\ c \in DOMAIN clientActiveTab' /\ clientActiveTab'[c] = repl
                    /\ \E i \in 1..Len(sent') :
                         /\ sent'[i].to = c /\ sent'[i].kind = "state_sync"
                         /\ sent'[i].tabId = repl
             /\ \A c \in DOMAIN clientActiveTab' :
                  readyState[c] = "open" => clientActiveTab'[c] # X
             /\ \A c \in DOMAIN clientActiveTab :
                  readyState[c] # "open" => clientActiveTab'[c] = clientActiveTab[c]]_vars

\* close_tab removed a tab two open connections were viewing: both were
\* rebound to the replacement and each got its state_sync
C7_Witness ==
  /\ last.op = "close_tab" /\ last.ret # Null /\ last.arg \notin DOMAIN tabs
  /\ \A c \in Conns : readyState[c] = "open" /\ Bound(c, last.ret)
  /\ Cardinality({i \in 1..Len(sent) :
        sent[i].kind = "state_sync" /\ sent[i].tabId = last.ret}) = 2
  /\ Cardinality({i \in 1..Len(sent) : sent[i].kind = "tabs_update"}) = 2

\* C8 (SpecDialog): at-most-once resolution.  The outcome of a dialog request
\* is fixed once, by the first of reply, timeout and abort; from then on the
\* pending entry is gone, the timer is cleared or has fired and the abort
\* listener is removed, and a later reply with the same identifier from any
\* connection, a later timer firing and a later abort leave the outcome and
\* the pending set as they are.
C8_AtMostOnce ==
  /\ [](\A id \in 1..Len(dialogs) :
          LET d == dialogs[id]
          IN /\ d.resolveCalls <= 1
             /\ (d.by = "none") <=> (id \in pendingExtensionRequests)
             /\ (d.by = "none") <=> (d.outcome = "pending")
             /\ d.by # "none" => (d.timer # "armed" /\ ~d.listener))
  /\ [][\A id \in 1..Len(dialogs) :
          dialogs[id].by # "none" =>
             /\ dialogs'[id].by = dialogs[id].by
             /\ dialogs'[id].outcome = dialogs[id].outcome
             /\ dialogs'[id].resolveCalls = dialogs[id].resolveCalls
             /\ id \notin pendingExtensionRequests'
             /\ (last'.op = "extension_ui_response" /\ last'.arg = id) =>
                   (UNCHANGED dlgVars /\ last'.ret = Null)
             /\ (last'.op = "abort_signal" /\ last'.arg = id) =>
                   (UNCHANGED pendingExtensionRequests /\ last'.ret = Null)
             /\ ~(last'.op = "timeout" /\ last'.arg = id)]_vars

\* the timeout resolved the request, then the signal aborted, then a reply
\* with the same identifier arrived and was dropped
C8_Witness ==
  /\ last.op = "extension_ui_response" /\ last.ret = Null
  /\ last.arg \in 1..Len(dialogs)
  /\ dialogs[last.arg].by = "timeout" /\ dialogs[last.arg].signal = "aborted"
  /\ dialogs[last.arg].resolveCalls = 1

\* C9 as stated (FairDialog): every dialog request registered in the pending
\* set is eventually resolved and removed from the pending set, whatever its
\* options and whether or not a connection is open or replies (as long as
\* the server process runs).
C9_AlwaysResolves ==
  \A id \in 1..MaxAsked :
     (id \in pendingExtensionRequests) ~>
        \/ mainPc = "exit"
        \/ /\ id \notin pendingExtensionRequests
           /\ id \in 1..Len(dialogs) /\ dialogs[id].by # "none"

\* a request without timeout and without signal is pending while no
\* connection is open: nothing is left that resolves it but a reply
C9_Witness ==
  /\ 1 \in pendingExtensionRequests
  /\ dialogs[1].timer = "none" /\ ~dialogs[1].listener
  /\ \A c \in Conns : readyState[c] = "closed"
  /\ mainPc = "listening"

\* C10 (SpecDialog): outcome by resolution source.  A reply yields, for
\* confirm, the reply's confirmed flag, and false when the reply is cancelled
\* or has no flag; for select and input the reply's value, and undefined when
\* the reply is cancelled or has no value.  A timeout yields the default
\* outcome, at the configured time and not before; an abort yields the
\* default outcome.
C10_OutcomeBySource ==
  /\ (last.op = "extension_ui_response" /\ last.ret = 1) =>
        LET d == dialogs[last.arg]
            r == last.reply
        IN /\ d.by = "reply"
           /\ d.outcome =
                IF d.method = "confirm"
                THEN IF r.cancelled = "true" \/ r.confirmed = "absent"
                     THEN "false" ELSE r.confirmed
                ELSE IF r.cancelled = "true" \/ r.value = "absent"
                     THEN "undefined" ELSE r.value
  /\ \A id \in 1..Len(dialogs) :
        LET d == dialogs[id]
            default == IF d.method = "confirm" THEN "false" ELSE "undefined"
        IN /\ d.by = "timeout" =>
                /\ d.outcome = default
                /\ d.timeout > 0 /\ d.at >= d.timeout
           /\ d.by = "abort" => (d.outcome = default /\ d.signal = "aborted")
           /\ d.by = "reply" =>
                d.outcome \in (IF d.method = "confirm"
                               THEN {"true", "false"} ELSE {"v", "undefined"})

\* a reply that carries both cancelled and a value resolved a select to
\* undefined, while the other request was resolved by its timeout
C10_Witness ==
  /\ last.op = "extension_ui_response" /\ last.ret = 1
  /\ last.reply.cancelled = "true" /\ last.reply.value = "v"
  /\ dialogs[last.arg].method = "select" /\ dialogs[last.arg].outcome = "undefined"
  /\ \E id \in 1..Len(dialogs) : dialogs[id].by = "timeout"

\* C11 (SpecDialog): a dialog request issued with a signal that is already
\* aborted resolves at once to the default outcome (false for confirm,
\* undefined for select and input); nothing is broadcast, the pending set
\* gets no entry and no request with a timer is registered.
C11_AbortedAtCall ==
  /\ [](last.op = "dialog_aborted" =>
          (sent = <<>> /\ last.out \in {"false", "undefined"}))
  /\ [][\A m \in Methods :
          CreateDialogPromiseAborted(m) =>
             /\ sent' = <<>>
             /\ UNCHANGED <<dialogs, pendingExtensionRequests>>
             /\ last'.out = (IF m = "confirm" THEN "false" ELSE "undefined")]_vars

\* a confirm with an aborted signal returned false while a connection is
\* open and another request stays pending with its timer armed
C11_Witness ==
  /\ last.op = "dialog_aborted" /\ last.out = "false"
  /\ \E c \in Conns : readyState[c] = "open"
  /\ \E id \in pendingExtensionRequests : dialogs[id].timer = "armed"

\* C12 as stated (SpecOrder): same-connection ordering.  When a command of a
\* connection is dispatched, every earlier command of that connection has
\* completed: no handler of the connection is suspended at an await, so a
\* prompt after new_session, open_session or delete_session goes to the tab
\* the earlier command leaves the connection bound to.
C12_SameConnectionOrder ==
  /\ last.op \in {"prompt", "switch_session"} =>
        \A h \in handlers : h.ws # last.ws
  /\ last.op \in {"new_session_begin", "open_session_begin", "delete_session_begin"} =>
        Cardinality({h \in handlers : h.ws = last.ws}) <= 1

\* new_session has completed and bound the connection to its new tab, while
\* the connection's prompt, dispatched during the await, went to the old tab
C12_Witness ==
  /\ last.op = "new_session"
  /\ Bound(last.ws, last.arg)
  /\ session[last.arg].prompts = 0
  /\ \E t \in DOMAIN tabs : t # last.arg /\ session[t].prompts = 1
  /\ \A c \in Conns : c # last.ws => readyState[c] = "none"

\* C13 as stated (SpecOrder): the binding table holds no entry for a
\* connection that has closed: its keys are connections that have not
\* closed, also when a command of the connection was suspended at an await
\* while the connection closed.
C13_NoBindingAfterClose ==
  \A c \in DOMAIN clientActiveTab : readyState[c] \in {"open", "closing"}

\* new_session completed for a connection that closed during the await: the
\* closed connection is bound to the new tab, no handler is left to run, and
\* the state_sync was handed to the closed socket
C13_Witness ==
  /\ last.op = "new_session" /\ readyState[last.ws] = "closed"
  /\ Bound(last.ws, last.arg)
  /\ handlers = {}
  /\ \E i \in 1..Len(sent) : sent[i].kind = "state_sync" /\ sent[i].to = last.ws

C15_OnAccept ==
  /\ [](\A c \in Conns :
          readyState[c] = "none" =>
             /\ c \notin DOMAIN clientActiveTab
             /\ c \notin Receivers
             /\ \A h \in handlers : h.ws # c
             /\ last.ws # c)
  /\ [](last.op = "connection" =>
          /\ Len(tabOrder) >= 1 /\ Bound(last.ws, tabOrder[1])
          /\ Len(sent) = 2
          /\ sent[1].to = last.ws /\ sent[1].kind = "tabs_update"
          /\ Len(sent[1].tabs) = Len(tabOrder)
          /\ \A j \in 1..Len(tabOrder) :
                /\ sent[1].tabs[j].tabId = tabOrder[j]
                /\ sent[1].tabs[j].name = tabs[tabOrder[j]].name
          /\ sent[2].to = last.ws /\ sent[2].kind = "state_sync"
          /\ sent[2].tabId = tabOrder[1])
  /\ [][\A c \in Conns :
          (readyState[c] = "none" /\ readyState'[c] # "none") =>
             (last'.op = "connection" /\ last'.ws = c /\ readyState'[c] = "open")]_vars

\* the second connection is accepted while the registry holds two tabs and
\* the first connection views the second tab
C15_Witness ==
  /\ last.op = "connection" /\ last.ws = 2
  /\ Len(tabOrder) = 2 /\ Bound(2, tabOrder[1]) /\ Bound(1, tabOrder[2])
  /\ Len(sent) = 2 /\ Len(sent[1].tabs) = 2

\* C16 (Spec): new_session, and open_session of a session that is not open.
\* In the step in which the tab is created the requesting connection is
\* bound to the new tab, every open connection is sent the tab list with the
\* new tab in it, one state_sync for the new tab goes to the requester and
\* none to any other connection, and every other binding stays as it is.
C16_CreateFlow ==
  [][\A h \in handlers :
       (/\ h.kind \in {"new_session", "open_session"} /\ h.pc = "bind"
        /\ h \notin handlers' /\ h.tabId \in DOMAIN tabs') =>
          /\ h.tabId \notin DOMAIN tabs
          /\ DOMAIN tabs' = DOMAIN tabs \cup {h.tabId}
          /\ tabOrder' = Append(tabOrder, h.tabId)
          /\ h.ws \in DOMAIN clientActiveTab' /\ clientActiveTab'[h.ws] = h.tabId
          /\ \A c \in Conns :
                readyState[c] = "open" =>
                   \E i \in 1..Len(sent') :
                      /\ sent'[i].to = c /\ sent'[i].kind = "tabs_update"
                      /\ Len(sent'[i].tabs) = Len(tabOrder')
                      /\ \A j \in 1..Len(tabOrder') :
                            /\ sent'[i].tabs[j].tabId = tabOrder'[j]
                            /\ sent'[i].tabs[j].name = tabs'[tabOrder'[j]].name
          /\ \A i \in 1..Len(sent') :
                sent'[i].kind = "state_sync" =>
                   (sent'[i].to = h.ws /\ sent'[i].tabId = h.tabId)
          /\ Cardinality({i \in 1..Len(sent') : sent'[i].kind = "state_sync"}) = 1
          /\ sent'[Len(sent')].kind = "state_sync"
          /\ \A c \in DOMAIN clientActiveTab :
                c # h.ws => (c \in DOMAIN clientActiveTab'
                               /\ clientActiveTab'[c] = clientActiveTab[c])
          /\ DOMAIN clientActiveTab' = DOMAIN clientActiveTab \cup {h.ws}]_vars

\* open_session has opened a saved session in a new tab while the other
\* connection is open and stays on the first tab
C16_Witness ==
  /\ last.op = "open_session" /\ Bound(last.ws, last.arg)
  /\ session[last.arg].sessionId \in Paths
  /\ \E c \in Conns : c # last.ws /\ readyState[c] = "open" /\ Bound(c, tabOrder[1])
  /\ tabOrder[1] # last.arg
  /\ Cardinality({i \in 1..Len(sent) : sent[i].kind = "tabs_update"}) = 2

\* C17 (SpecTabs): switch_session to a tab of the registry binds the
\* requester to that tab and sends one state_sync for it, to the requester;
\* registry, sessions and every other binding stay as they are and no other
\* connection is sent anything.
C17_SwitchFrame ==
  [][(last'.op = "switch_session" /\ last'.arg \in DOMAIN tabs) =>
       /\ last'.ws \in DOMAIN clientActiveTab'
       /\ clientActiveTab'[last'.ws] = last'.arg
       /\ Len(sent') = 1
       /\ sent'[1].to = last'.ws /\ sent'[1].kind = "state_sync"
       /\ sent'[1].tabId = last'.arg
       /\ UNCHANGED <<tabs, tabOrder, session, tabCounter, handlers, readyState>>
       /\ DOMAIN clientActiveTab' = DOMAIN clientActiveTab \cup {last'.ws}
       /\ \A c \in DOMAIN clientActiveTab :
             c # last'.ws => clientActiveTab'[c] = clientActiveTab[c]]_vars

\* a connection switched from the first tab to the third while the other
\* connection views the second
C17_Witness ==
  /\ last.op = "switch_session" /\ last.arg = 3 /\ Len(tabOrder) = 3
  /\ Bound(last.ws, 3)
  /\ \E c \in Conns : c # last.ws /\ readyState[c] = "open" /\ Bound(c, 2)
  /\ Len(sent) = 1

\* C18 (SpecTabs): switch_session and close_tab naming an identifier that is
\* not in the registry, because it was never registered or is already
\* closed, change nothing: registry, order, bindings, pending requests and
\* sessions stay as they are, nothing is disposed and nothing is sent.
C18_UnknownTabNoOp ==
  [][(last'.op \in {"switch_session", "close_tab"} /\ last'.arg \notin DOMAIN tabs) =>
       /\ UNCHANGED <<tabs, tabOrder, clientActiveTab, session,
                      dialogs, pendingExtensionRequests>>
       /\ sent' = <<>>
       /\ last'.ret = Null]_vars

\* close_tab names a tab that was closed before, while two tabs are open and
\* the requester views one of them
C18_Witness ==
  /\ last.op = "close_tab" /\ last.ret = Null
  /\ last.arg \in DOMAIN session /\ session[last.arg].state = "disposed"
  /\ last.arg \notin DOMAIN tabs
  /\ Len(tabOrder) = 2 /\ sent = <<>>
  /\ last.ws \in DOMAIN clientActiveTab

\* C19 (Spec): createTab fails for new_session or open_session, at
\* createAgentSession or at bindExtensions.  The step changes neither
\* mapping, order nor bindings and sends nothing, the server goes on
\* listening, and an identifier that is handed out, not registered and not
\* under construction is never registered later.
C19_CreateFails ==
  /\ [][\A h \in handlers :
          (/\ h.kind \in {"new_session", "open_session"} /\ h.pc \in {"cas", "bind"}
           /\ \A g \in handlers' : g.tabId # h.tabId
           /\ h.tabId \notin DOMAIN tabs') =>
             /\ UNCHANGED <<tabs, tabOrder, clientActiveTab>>
             /\ sent' = <<>>
             /\ mainPc' = "listening"
             /\ last'.op = "createTabRejects"]_vars
  /\ [][\A t \in TabIds :
          (/\ t < nextTabId /\ t \notin DOMAIN tabs
           /\ \A h \in handlers : h.tabId # t) =>
             (t \notin DOMAIN tabs' /\ t \notin Range(tabOrder'))]_vars
  /\ [](last.op = "createTabRejects" /\ last.ws # Null =>
          (mainPc = "listening" /\ last.arg \notin DOMAIN tabs
             /\ last.arg \notin Range(tabOrder)))

\* open_session failed at createAgentSession; afterwards the requester's
\* list_sessions was answered
C19_Witness ==
  /\ last.op = "list_sessions"
  /\ \E i \in 1..Len(sent) : sent[i].kind = "sessions_list"
  /\ \E t \in DOMAIN session :
        /\ session[t].state = "failed" /\ session[t].sessionId \in Paths
        /\ t \notin DOMAIN tabs
  /\ Len(tabOrder) = 1

\* C20 as stated (SpecInput): a frame that is not JSON, that is JSON but no
\* object with a known command type (null, a number, a string, an array
\* among them), or that has an unknown type, is dropped: registry, bindings
\* and pending set stay as they are, nothing is sent, the connection stays
\* open and the server process keeps running.
C20_DroppedPayload ==
  [][last'.op = "payload" =>
       /\ UNCHANGED <<tabs, tabOrder, clientActiveTab, session,
                      dialogs, pendingExtensionRequests>>
       /\ sent' = <<>>
       /\ readyState'[last'.ws] = "open"
       /\ mainPc' = "listening"]_vars

\* the frame `null` has ended the server process while a connection was
\* open and a dialog request was pending
C20_Witness ==
  /\ last.op = "payload" /\ last.out = "null"
  /\ mainPc = "exit"
  /\ readyState[last.ws] = "open"
  /\ pendingExtensionRequests # {}

\* C21 (Spec): every bind names a tab of the registry.  Whenever a step gives
\* a connection a binding or changes it, the new value is a tab that is in
\* the registry when the step is done; the steps that bind are connect,
\* new_session, open_session, switch_session and the rebinding of close_tab
\* and delete_session.  The table maps a connection to one tab.
C21_BindsToRegistry ==
  /\ [][\A c \in DOMAIN clientActiveTab' :
          (c \notin DOMAIN clientActiveTab \/ clientActiveTab'[c] # clientActiveTab[c]) =>
             /\ clientActiveTab'[c] \in DOMAIN tabs'
             /\ last'.op \in {"connection", "new_session", "open_session",
                              "open_session_switch", "switch_session",
                              "close_tab", "delete_session_close"}]_vars
  /\ [](last.op \in {"connection", "new_session", "open_session",
                     "open_session_switch"} =>
           (last.ws \in DOMAIN clientActiveTab
              /\ clientActiveTab[last.ws] \in DOMAIN tabs))
  /\ [](\A c \in DOMAIN clientActiveTab : clientActiveTab[c] \in TabIds)

\* delete_session closed the tab of the saved session and moved its viewer
\* to the remaining tab
C21_Witness ==
  /\ last.op = "delete_session_close"
  /\ \E c \in Conns : readyState[c] = "open" /\ Bound(c, last.ret)
  /\ last.ret \in DOMAIN tabs /\ last.arg \notin DOMAIN tabs
  /\ \E i \in 1..Len(sent) : sent[i].kind = "state_sync"

\* C22 (FairPrompt): prompt and abort go to the tab the connection is bound
\* to when the command is dispatched, or to the first tab when it has no
\* binding, and to no other session: the step changes the session of that tab
\* and leaves every other session as it was; when that identifier is not in
\* the registry the step changes no session and suspends no handler.
C22_PromptAbortTarget ==
  [][last'.op \in {"prompt", "abort"} =>
       LET ws == last'.ws
           target == IF ws \in DOMAIN clientActiveTab THEN clientActiveTab[ws]
                     ELSE IF Len(tabOrder) > 0 THEN tabOrder[1] ELSE Null
       IN /\ last'.arg = target
          /\ IF target \in DOMAIN tabs
             THEN LET s == tabs[target].session
                  IN /\ \A t \in DOMAIN session : t # s => session'[t] = session[t]
                     /\ last'.op = "abort" =>
                          last'.ret = 1 /\ session'[s].aborts = session[s].aborts + 1
                     /\ last'.op = "prompt" /\ last'.ret = 1 =>
                          session'[s].prompts = session[s].prompts + 1
                     /\ last'.ret = Null => session' = session
             ELSE last'.ret = Null /\ session' = session /\ handlers' = handlers]_vars

\* a prompt reached the session of the second tab, which the sender is bound
\* to, while the first tab's session got none
C22_Witness ==
  /\ last.op = "prompt" /\ last.ret = 1
  /\ Len(tabOrder) = 2 /\ last.arg = tabOrder[2]
  /\ Bound(last.ws, last.arg)
  /\ session[tabs[tabOrder[2]].session].prompts = 1
  /\ session[tabs[tabOrder[1]].session].prompts = 0

\* C23 (FairPrompt): dispatch does not wait for a response.  A prompt to an
\* idle session starts the response and leaves no handler suspended: the
\* session is still streaming when the dispatch step is done.  While a
\* session streams, however long, a new_session or a prompt that another
\* connection has under way completes, a connection that may send gets its
\* new_session dispatched, and the tab switches keep taking effect.
C23_NonBlocking ==
  /\ [][last'.op = "prompt" /\ last'.ret = 1
          /\ ~session[tabs[last'.arg].session].streaming =>
             /\ handlers' = handlers
             /\ session'[tabs[last'.arg].session].streaming]_vars
  /\ [][last'.op = "switch_session" /\ last'.arg \in DOMAIN tabs =>
             /\ last'.ws \in DOMAIN clientActiveTab'
             /\ clientActiveTab'[last'.ws] = last'.arg]_vars
  /\ [](\A c \in Conns :
          (Receives(c) /\ Room(MaxConcurrent) /\ nextTabId <= MaxOpened) =>
             ENABLED NewSession(c))
  /\ \A k \in {"new_session", "prompt"} :
       (\E h \in handlers : h.kind = k) ~> (\A h \in handlers : h.kind # k)

\* the first tab is still streaming when a new_session of the other
\* connection, dispatched after the prompt, has completed
C23_Witness ==
  /\ last.op = "new_session"
  /\ session[tabs[tabOrder[1]].session].streaming
  /\ session[tabs[tabOrder[1]].session].prompts = 1
  /\ \E c \in Conns : c # last.ws /\ Bound(c, tabOrder[1]) /\ readyState[c] = "open"
  /\ ~session[last.arg].streaming

\* C24 (Spec): delete_session closes before it deletes.  When the handler has
\* listed the sessions and the session to delete is open in tab T, that step
\* is the close flow of T: T leaves the registry, its session is disposed and
\* the tab list is broadcast; and at the step that deletes the file no tab of
\* the registry has the session of that file.
C24_CloseBeforeUnlink ==
  [][/\ last'.op \in {"delete_session_close", "delete_session_keep"} =>
          \A t \in DOMAIN tabs :
             (\E h \in handlers : h.kind = "delete_session" /\ h.pc = "list"
                  /\ h.ws = last'.ws /\ h.path \in files
                  /\ session[tabs[t].session].sessionId = h.path) =>
                /\ last'.op = "delete_session_close"
                /\ t \notin DOMAIN tabs'
                /\ session'[tabs[t].session].state = "disposed"
     /\ \A p \in Paths :
          (p \in files /\ p \notin files') => findOpenTab(tabs, tabOrder, p) = Null]_vars

\* the file of the session of the only tab has been deleted and the tab is
\* still in the registry, its session live
C24_Witness ==
  /\ last.op = "delete_session_unlink" /\ last.arg \notin files
  /\ Len(tabOrder) = 1
  /\ session[tabs[tabOrder[1]].session].sessionId = last.arg
  /\ session[tabs[tabOrder[1]].session].state = "live"

\* C25 (SpecSaved): a sessions_list names no open session.  No session in a
\* sessions_list message has the session identifier of a tab that is in the
\* registry when the message is sent.
C25_ListExcludesOpen ==
  \A i \in 1..Len(sent) :
    sent[i].kind = "sessions_list" =>
       \A j \in 1..Len(sent[i].tabs) : sent[i].tabs[j] \notin openSessionIds(tabs)

\* the reply to list_sessions offers a saved session that a tab, created
\* while the listing was awaited, already runs
C25_Witness ==
  /\ last.op = "list_sessions" /\ Len(sent) = 1
  /\ Len(sent[1].tabs) = 1
  /\ findOpenTab(tabs, tabOrder, sent[1].tabs[1]) # Null
  /\ readyState[sent[1].to] = "open"

\* C26 (SpecInput): a reply that matches nothing is dropped.  An
\* extension_ui_response whose id is not in the pending set (never issued,
\* answered before, or missing) leaves the pending set, every request's
\* outcome, the registry, the sessions and the bindings as they were, and
\* sends nothing.
C26_UnmatchedDropped ==
  [][(last'.op = "extension_ui_response"
        /\ last'.arg \notin pendingExtensionRequests) =>
       /\ UNCHANGED <<pendingExtensionRequests, dialogs>>
       /\ UNCHANGED <<tabs, tabOrder, clientActiveTab, tabCounter, session,
                      readyState, handlers, files, nextTabId, mainPc>>
       /\ sent' = <<>>
       /\ last'.ret = Null]_vars

\* a reply names an id that is not pending while another request waits, and
\* that request still waits
C26_Witness ==
  /\ last.op = "extension_ui_response" /\ last.ret = Null
  /\ last.arg \notin pendingExtensionRequests
  /\ \E id \in pendingExtensionRequests : id # last.arg /\ dialogs[id].outcome = "pending"

\* C27 (Spec): closing a tab keeps the dialog requests.  A step of close_tab
\* or of delete_session's close flow leaves the pending-request map and the
\* record of every request, its timer and its outcome, as they were.
C27_ClosureKeepsPending ==
  [][last'.op \in {"close_tab", "delete_session_close"} =>
       UNCHANGED <<pendingExtensionRequests, dialogs>>]_vars

\* a tab has been closed and its session disposed while a dialog request
\* was pending, and the request is pending still
C27_Witness ==
  /\ last.op \in {"close_tab", "delete_session_close"}
  /\ last.arg \notin DOMAIN tabs /\ last.arg \in DOMAIN session
  /\ session[last.arg].state = "disposed"
  /\ \E id \in pendingExtensionRequests : dialogs[id].outcome = "pending"

\* C28 (Spec), as stated: every message of every step is handed to a
\* connection that is open.
C28_AsStated ==
  \A i \in 1..Len(sent) : readyState[sent[i].to] = "open"

\* C28 (Spec), amended: the broadcasts test the state and the unicasts do
\* not.  A message of the all-connections or of the tab-scoped broadcast, and
\* a state_sync of a close flow, is handed to open connections only.  A
\* unicast to a connection that is not open happens only where a handler
\* resumes after an await and replies to its own requester (new_session,
\* open_session, list_sessions, delete_session); it is handed to the socket
\* as it is.  In a step that broadcasts the tab list every open connection
\* is handed it, whatever the state of the others.
C28_BroadcastsSkipNonOpen ==
  /\ \A i \in 1..Len(sent) :
       LET m == sent[i]
       IN /\ m.via \in {"all", "scoped"} => readyState[m.to] = "open"
          /\ last.op \in {"close_tab", "delete_session_close", "connection",
                          "switch_session"} => readyState[m.to] = "open"
          /\ readyState[m.to] # "open" =>
               /\ m.via = "unicast" /\ m.to = last.ws
               /\ m.kind \in {"state_sync", "sessions_list"}
               /\ last.op \in {"new_session", "open_session", "open_session_switch",
                               "list_sessions", "delete_session"}
  /\ last.op \in {"new_session", "open_session", "close_tab", "delete_session_close"}
       /\ (last.op \in {"close_tab", "delete_session_close"} => last.ret # Null)
       => \A c \in Conns :
            readyState[c] = "open" =>
               \E i \in 1..Len(sent) : sent[i].to = c /\ sent[i].kind = "tabs_update"

\* new_session completes after its requester has closed: the state_sync is
\* handed to the closed socket, and the other connection, open, is handed
\* the tab list
C28_Witness ==
  /\ last.op = "new_session" /\ readyState[last.ws] # "open"
  /\ \E i \in 1..Len(sent) : sent[i].to = last.ws /\ sent[i].kind = "state_sync"
  /\ \E c \in Conns :
       /\ c # last.ws /\ readyState[c] = "open"
       /\ \E i \in 1..Len(sent) : sent[i].to = c /\ sent[i].kind = "tabs_update"
  /\ \A i \in 1..Len(sent) : sent[i].kind = "tabs_update" => sent[i].to # last.ws

\* C29 (SpecClient): stale sync discarded.  A client whose activeTabId is X
\* and that handles a state_sync with a tabId Y other than X keeps its
\* conversation items, its streaming flag and its activeTabId.
C29_StaleSyncDiscarded ==
  [][(last'.op = "client_state_sync" /\ state.activeTabId # Null
        /\ last'.arg # Null /\ last'.arg # state.activeTabId) =>
       /\ state'.items = state.items
       /\ state'.streaming = state.streaming
       /\ state'.activeTabId = state.activeTabId]_vars

\* the user clicked a tab, a sync for another tab arrived next, and now the
\* client shows the other tab with the conversation of that sync
C29_Witness ==
  /\ last.op = "client_state_sync"
  /\ activeBefore.clicked /\ activeBefore.tab # Null
  /\ last.arg # Null /\ last.arg # activeBefore.tab
  /\ state.activeTabId = last.arg
  /\ state.items = last.ret

\* C30 (SpecTabs): disposal on close.  A step that removes a tab from the
\* registry disposes the tab's session, for the first and only time, and
\* takes the identifier out of the mapping and the order together; a tab that
\* is in the registry has a live session that was never disposed; no session
\* is disposed twice; no two tabs of the registry have the same session.
C30_DisposedOnClose ==
  /\ [][\A t \in DOMAIN tabs :
          t \notin DOMAIN tabs' =>
             LET s == tabs[t].session
             IN /\ session[s].state = "live" /\ session[s].disposeCalls = 0
                /\ session'[s].state = "disposed" /\ session'[s].disposeCalls = 1
                /\ \A i \in 1..Len(tabOrder') : tabOrder'[i] # t]_vars
  /\ [](\A t \in DOMAIN tabs :
          /\ session[tabs[t].session].state = "live"
          /\ session[tabs[t].session].disposeCalls = 0)
  /\ [](\A s \in DOMAIN session :
          /\ session[s].disposeCalls <= 1
          /\ (session[s].state = "disposed") <=> (session[s].disposeCalls = 1))
  /\ [](\A t1, t2 \in DOMAIN tabs : t1 # t2 => tabs[t1].session # tabs[t2].session)

\* two tabs have been closed, each session disposed once, and the tab that
\* is left runs a live session
C30_Witness ==
  /\ last.op = "close_tab" /\ last.arg \notin DOMAIN tabs
  /\ Cardinality({s \in DOMAIN session :
                    session[s].state = "disposed" /\ session[s].disposeCalls = 1}) = 2
  /\ Len(tabOrder) = 1 /\ session[tabs[tabOrder[1]].session].state = "live"

\* C31 (SpecTabs): display names.  The first tab is named "Session 1"; a tab
\* of a resumed session with a stored name has that name; and no two tabs of
\* the registry that were created without a hint and without a stored name
\* have the same "Session N".
C31_DisplayName ==
  /\ InitialTabCreated /\ 1 \in DOMAIN tabs => tabs[1].name = SessionName(1)
  /\ \A t1, t2 \in DOMAIN tabs :
       (t1 # t2 /\ tabs[t1].name[1] = "Session" /\ tabs[t2].name[1] = "Session") =>
          tabs[t1].name # tabs[t2].name

\* two new_session commands were in createTab together and both tabs are
\* registered under the same default name
C31_Witness ==
  /\ last.op = "new_session"
  /\ \E t1, t2 \in DOMAIN tabs :
       /\ t1 # t2 /\ t1 # 1 /\ t2 # 1
       /\ tabs[t1].name = tabs[t2].name
       /\ tabs[t1].name = SessionName(tabCounter)

\* C32 (SpecSaved): a saved session is open in one tab at most.  No two tabs
\* of the registry have the same session identifier, however open_session
\* commands for one path interleave; and an open_session that finds the
\* session open creates no tab: it binds the requester and sends it the sync.
C32_OpenedOnce ==
  /\ \A t1, t2 \in DOMAIN tabs :
       t1 # t2 => session[tabs[t1].session].sessionId # session[tabs[t2].session].sessionId
  /\ last.op = "open_session_switch" =>
       /\ Bound(last.ws, last.arg)
       /\ \A i \in 1..Len(sent) : sent[i].kind = "state_sync" /\ sent[i].to = last.ws

\* two open_session commands for the same file have completed and two tabs
\* of the registry run that session
C32_Witness ==
  /\ last.op = "open_session"
  /\ \E t1, t2 \in DOMAIN tabs :
       /\ t1 # t2
       /\ session[tabs[t1].session].sessionId = session[tabs[t2].session].sessionId
       /\ session[tabs[t1].session].sessionId \in Paths
       /\ session[tabs[t1].session].state = "live"
       /\ session[tabs[t2].session].state = "live"

\* C33 (Spec): between handler runs every open connection is bound to a tab
\* of the registry, whatever close_tab, delete_session, new_session,
\* open_session and switch_session commands have run or are suspended.
C33_OpenBoundToRegistry ==
  \A c \in Conns :
    readyState[c] = "open" =>
       c \in DOMAIN clientActiveTab /\ clientActiveTab[c] \in DOMAIN tabs

\* the tab an open connection was viewing has been closed by the other
\* connection, and the viewer is bound to the replacement
C33_Witness ==
  /\ last.op \in {"close_tab", "delete_session_close"} /\ last.ret # Null
  /\ last.arg \notin DOMAIN tabs
  /\ \E c \in Conns :
       /\ c # last.ws /\ readyState[c] = "open" /\ Bound(c, last.ret)
       /\ \E i \in 1..Len(sent) : sent[i].kind = "state_sync" /\ sent[i].to = c
  /\ readyState[last.ws] = "open"

\* C34 (Spec): the last sync names the binding.  A step that gives an open
\* connection a binding or changes it sends that connection, in the same
\* step, a state_sync for the new tab, and it is the last state_sync the
\* step sends to it; and every state_sync sent to an open connection names
\* the tab the connection is bound to when the step is done.  Together: the
\* most recent state_sync of an open connection names its binding.
C34_SyncFollowsBinding ==
  /\ [][\A c \in Conns :
          (readyState'[c] = "open" /\ c \in DOMAIN clientActiveTab'
             /\ (c \notin DOMAIN clientActiveTab
                   \/ clientActiveTab'[c] # clientActiveTab[c])) =>
             \E i \in 1..Len(sent') :
                /\ sent'[i].to = c /\ sent'[i].kind = "state_sync"
                /\ sent'[i].tabId = clientActiveTab'[c]
                /\ \A j \in (i + 1)..Len(sent') :
                     ~(sent'[j].to = c /\ sent'[j].kind = "state_sync")]_vars
  /\ [](\A i \in 1..Len(sent) :
          (sent[i].kind = "state_sync" /\ readyState[sent[i].to] = "open") =>
             Bound(sent[i].to, sent[i].tabId))

\* a connection switched from the tab it was accepted on to the second tab
\* and was sent the sync of the second tab
C34_Witness ==
  /\ last.op = "switch_session" /\ Len(sent) = 1
  /\ Len(tabOrder) = 2 /\ last.arg = tabOrder[2]
  /\ sent[1].kind = "state_sync" /\ sent[1].to = last.ws /\ sent[1].tabId = last.arg
  /\ Bound(last.ws, last.arg) /\ readyState[last.ws] = "open"

\* C35 (FairPrompt): no gap between snapshot and stream.  An event a tab's runtime
\* emits is handed exactly once to every open connection that is bound to
\* the tab at that moment, and one event is one step, so the events reach a
\* viewer in the order of emission.  The snapshot of a state_sync and the
\* binding belong to one step: the step that sends an open connection the
\* sync of T leaves it bound to T, the snapshot is the session's content
\* when the step is done, and the step emits no event.
C35_NoGap ==
  /\ last.op \in {"event", "agent_end"} =>
       \A c \in Conns :
          (readyState[c] = "open" /\ Bound(c, last.arg)) =>
             Cardinality({i \in 1..Len(sent) : sent[i].to = c /\ sent[i].kind = "event"
                                                 /\ sent[i].tabId = last.arg}) = 1
  /\ \A i \in 1..Len(sent) :
       (sent[i].kind = "state_sync" /\ readyState[sent[i].to] = "open") =>
          /\ Bound(sent[i].to, sent[i].tabId)
          /\ sent[i].tabId \in DOMAIN tabs
          /\ sent[i].messages = session[tabs[sent[i].tabId].session].prompts
          /\ \A j \in 1..Len(sent) : sent[j].kind # "event"

\* both connections view the second tab, which they were switched or
\* created into and which was prompted after their syncs, and the event that
\* ends the response is handed to each of them once
C35_Witness ==
  /\ last.op = "agent_end" /\ Len(sent) = 2
  /\ session[tabs[last.arg].session].prompts > 0
  /\ Len(tabOrder) = 2 /\ last.arg = tabOrder[2]
  /\ sent[1].to # sent[2].to
  /\ \A c \in Conns : readyState[c] = "open" /\ Bound(c, last.arg)

\* C37 (Spec): tab-list agreement.  A step that changes the registry (the
\* mapping or the order) sends every open connection a tabs_update; every
\* tabs_update that is sent, on accept too, carries the registry's list as it
\* is when the step is done, identifiers and names in order; and every open
\* connection has been sent one.  Together: between handler runs the most
\* recent tabs_update of an open connection is the registry's list.
C37_TabListAgreement ==
  /\ [][(tabs' # tabs \/ tabOrder' # tabOrder) =>
          \A c \in Conns :
             readyState'[c] = "open" =>
                \E i \in 1..Len(sent') : sent'[i].to = c /\ sent'[i].kind = "tabs_update"]_vars
  /\ [](\A i \in 1..Len(sent) :
          sent[i].kind = "tabs_update" => sent[i].tabs = getTabsList(tabs, tabOrder))
  /\ [](last.op = "connection" =>
          \E i \in 1..Len(sent) : sent[i].to = last.ws /\ sent[i].kind = "tabs_update")
  /\ [][\A c \in Conns :
          (readyState[c] # "open" /\ readyState'[c] = "open") => last'.op = "connection"]_vars

\* delete_session closed the tab of a saved session: both open connections
\* are sent the list of the one tab that is left
C37_Witness ==
  /\ last.op = "delete_session_close" /\ Len(tabOrder) = 1
  /\ \A c \in Conns :
       /\ readyState[c] = "open"
       /\ \E i \in 1..Len(sent) :
            /\ sent[i].to = c /\ sent[i].kind = "tabs_update"
            /\ Len(sent[i].tabs) = 1 /\ sent[i].tabs[1].tabId = tabOrder[1]

\* C38: a close_tab that removes tab X leaves every connection bound to
\* another tab, the requester included, with its binding and sends it no
\* state_sync; the remaining tabs keep their relative order
C38_CloseTabFrame ==
  [][(last'.op = "close_tab" /\ last'.ret # Null) =>
       /\ \A c \in DOMAIN clientActiveTab :
            clientActiveTab[c] # last'.arg =>
              /\ c \in DOMAIN clientActiveTab'
              /\ clientActiveTab'[c] = clientActiveTab[c]
              /\ \A i \in 1..Len(sent') :
                   ~(sent'[i].to = c /\ sent'[i].kind = "state_sync")
       /\ tabOrder' = SelectSeq(tabOrder, LAMBDA t : t # last'.arg)]_vars

\* a close_tab has removed a tab the requester was not viewing while another
\* connection, which was viewing it, has been sent the replacement's state_sync
C38_Witness ==
  /\ last.op = "close_tab"
  /\ last.ret # Null
  /\ last.ws \in DOMAIN clientActiveTab
  /\ clientActiveTab[last.ws] # last.ret
  /\ Len(tabOrder) = 2
  /\ \E i \in 1..Len(sent) :
       sent[i].kind = "state_sync" /\ sent[i].to # last.ws

\* C39: once a delete_session command has completed and the file is gone, no
\* tab of the registry is backed by the deleted session
C39_NoTabOfDeleted ==
  (last.op = "delete_session" /\ last.arg \notin files) =>
     \A t \in DOMAIN tabs : session[tabs[t].session].sessionId # last.arg

\* a delete_session has sent its reply, the file is gone, and the only tab of
\* the registry still runs the deleted session
C39_Witness ==
  /\ last.op = "delete_session" /\ last.arg \notin files
  /\ Len(sent) = 1 /\ sent[1].kind = "sessions_list"
  /\ Cardinality(DOMAIN tabs) = 1
  /\ \E t \in DOMAIN tabs :
       /\ session[tabs[t].session].sessionId = last.arg
       /\ session[tabs[t].session].state = "live"

\* C40 (SpecShown): no dialog request is dropped silently.  Whenever the
\* request on show stops being the one on show, the client has at that step
\* sent an extension_ui_response with the identifier of that request; a
\* request of method select, confirm, input or editor is on show once received.
C40_NoSilentDrop ==
  [][/\ (state.dialog # NoRequest /\ state'.dialog.id # state.dialog.id) =>
          /\ last'.op \in {"respond", "overlay_click"}
          /\ last'.arg = state.dialog.id
          /\ last'.ret = 1
     /\ (last'.op = "extension_ui_request"
           /\ last'.out \in {"select", "confirm", "input", "editor"}) =>
          state'.dialog.id = last'.arg]_vars

\* a second request has arrived while the dialog of another request was open,
\* and is now the one on show
C40_Witness ==
  /\ last.op = "extension_ui_request"
  /\ last.out \in {"select", "confirm", "input", "editor"}
  /\ last.ret # Null /\ last.ret # last.arg
  /\ state.dialog.id = last.arg
  /\ state.connected

\* C36 (SpecAgree): client/server tab agreement.  Whenever the browser's
\* socket is open, every switch_session the client has sent has been handled
\* and every frame sent to the client has been received, state.activeTabId of
\* the client is the tab the server has bound the client's connection to.
C36_TabAgreement ==
  (/\ link.on /\ state.connected
   /\ link.up = <<>> /\ link.down = <<>>
   /\ Browser \in DOMAIN clientActiveTab)
  => state.activeTabId = clientActiveTab[Browser]

\* nothing is in flight either way, the other client has closed the tab the
\* browser clicked, and the client shows a tab that is not the one its
\* connection is bound to and is no longer in the registry
C36_Witness ==
  /\ link.on /\ state.connected
  /\ link.up = <<>> /\ link.down = <<>>
  /\ Browser \in DOMAIN clientActiveTab
  /\ activeBefore.clicked
  /\ state.activeTabId # clientActiveTab[Browser]
  /\ state.activeTabId \notin DOMAIN tabs
  /\ state.tabs = TabIdsOf(getTabsList(tabs, tabOrder))

====
